---- MODULE Spec2Model ----
(***************************************************************************)
(* The pickle-based cache of ticker_analysis: CacheUtils (key generation,   *)
(* ticker validation and sanitising, shape validation), CacheConfig over    *)
(* ConfigManager (enabled flag, TTL) and CacheManager (index, blobs, get,   *)
(* store, the clean_* family, stats, list).                                 *)
(*                                                                          *)
(* A Python string is a sequence of tokens: a ticker is spelled character   *)
(* by character, a data type or a period is one token.  Time is counted in  *)
(* hours.  A file is the stream of objects pickle wrote to it; a stream     *)
(* that does not end with STOP is a truncated pickle.                       *)
(***************************************************************************)
EXTENDS Integers, Sequences, FiniteSets, TLC

VARIABLES
    cache_index,   \* per process: CacheManager._cache_index, a dict key -> CacheMetadata
    files,         \* the blobs under <base>/cache: a dict path -> stream
    index_file,    \* <base>/metadata/cache_index.pkl: NoFile or a stream
    config,        \* ConfigManager._config['cache'] as the processes see it
    now,           \* datetime.now(), in hours
    res,           \* the last operation: its arguments, what it returned, what failed
    manager,       \* per process: whether it holds a constructed CacheManager
    latest,        \* per key: the value of the last store that returned True
    dirs,          \* the data types that have a directory <base>/cache/<data_type>
    writing        \* per process: the blob it has open for writing, and how far it is

vars == <<cache_index, files, index_file, config, now, res, manager, latest, dirs,
         writing>>

----------------------------------------------------------------------------
(* Bounds and input sets *)

MaxTime == 1

Procs == {1, 2}

TTLs == {0, 1}

None == <<"<None>">>

company_info == <<"company_info">>
price_data == <<"price_data">>

DataTypes == {company_info, price_data}

----------------------------------------------------------------------------
(* Python str methods on token sequences *)

upper_char(c) ==
    CASE c = "a" -> "A"
      [] c = "b" -> "B"
      [] c = "c" -> "C"
      [] OTHER -> c

lower_char(c) ==
    CASE c = "A" -> "a"
      [] c = "B" -> "b"
      [] c = "C" -> "c"
      [] OTHER -> c

str_upper(s) == [i \in 1..Len(s) |-> upper_char(s[i])]

str_lower(s) == [i \in 1..Len(s) |-> lower_char(s[i])]

is_space(c) == c = " "

RECURSIVE lstrip(_)
lstrip(s) == IF s # <<>> /\ is_space(Head(s)) THEN lstrip(Tail(s)) ELSE s

RECURSIVE rstrip(_)
rstrip(s) ==
    IF s # <<>> /\ is_space(s[Len(s)]) THEN rstrip(SubSeq(s, 1, Len(s) - 1)) ELSE s

str_strip(s) == lstrip(rstrip(s))

\* s.replace(old, new) for a one-character old; new is a string (possibly empty)
RECURSIVE str_replace(_, _, _)
str_replace(s, old, new) ==
    IF s = <<>> THEN <<>>
    ELSE (IF Head(s) = old THEN new ELSE <<Head(s)>>) \o str_replace(Tail(s), old, new)

is_alnum_char(c) == c \in {"a", "b", "c", "A", "B", "C", "1", "2"}

str_isalnum(s) == s # <<>> /\ \A i \in 1..Len(s) : is_alnum_char(s[i])

\* Python truthiness of an Optional[str]
Truthy(s) == s # None /\ s # <<>>

----------------------------------------------------------------------------
(* CacheUtils *)

\* a check that looks at the length only
is_valid_ticker_by_length(ticker) ==
    IF ~Truthy(ticker) THEN FALSE
    ELSE Len(str_strip(ticker)) >= 1 /\ Len(str_strip(ticker)) <= 10

is_valid_ticker(ticker) ==
    IF ~Truthy(ticker) THEN FALSE
    ELSE LET t == str_upper(str_strip(ticker))
         IN  /\ Len(t) >= 1
             /\ Len(t) <= 10
             /\ str_isalnum(str_replace(str_replace(t, ".", <<>>), "-", <<>>))

sanitize_ticker_unstripped(ticker) ==
    IF ~Truthy(ticker) THEN <<>>
    ELSE str_replace(str_replace(str_replace(str_upper(ticker), ".", <<"_">>),
                                 "-", <<"_">>), "/", <<"_">>)

sanitize_ticker(ticker) ==
    IF ~Truthy(ticker) THEN <<>>
    ELSE LET sanitized == str_strip(str_upper(ticker))
         IN  str_replace(str_replace(str_replace(sanitized, ".", <<"_">>),
                                     "-", <<"_">>), "/", <<"_">>)

\* The names a parameter can have, in the order sorted() puts them.
SortedNames == <<"adjusted", "data_type", "frequency", "interval", "period", "ticker">>

\* params of generate_cache_key, a dict in insertion order: the four fixed
\* items, then **kwargs, a sequence of <<name, value>> in the order of the call
\* (a call cannot repeat a name, nor pass one of the four fixed names twice)
key_params(ticker, data_type, frequency, period, kwargs) ==
    << <<"ticker", str_upper(ticker)>>,
       <<"data_type", str_lower(data_type)>>,
       <<"frequency", IF Truthy(frequency) THEN str_lower(frequency) ELSE <<"none">> >>,
       <<"period", IF Truthy(period) THEN str_lower(period) ELSE <<"none">> >> >>
      \o kwargs

\* the items in the order the dict has them
items_as_given(items) == items

\* sorted(params.items()): by name, the names being distinct
RECURSIVE sorted_items(_)
sorted_items(items) ==
    IF items = <<>> THEN <<>>
    ELSE LET rank(name) == CHOOSE r \in 1..Len(SortedNames) : SortedNames[r] = name
             i == CHOOSE x \in 1..Len(items) :
                    \A y \in 1..Len(items) : rank(items[x][1]) <= rank(items[y][1])
         IN  <<items[i]>>
               \o sorted_items(SubSeq(items, 1, i - 1) \o SubSeq(items, i + 1, Len(items)))

\* '|'.join(f"{k}:{v}" for k, v in items)
RECURSIVE join_params(_)
join_params(items) ==
    IF items = <<>> THEN <<>>
    ELSE <<items[1][1], ":">> \o items[1][2]
           \o (IF Len(items) = 1 THEN <<>> ELSE <<"|">> \o join_params(Tail(items)))

\* hashlib.md5(param_string.encode()).hexdigest()[:8], kept symbolic: the digest
\* of a string is the string between digest marks, so equal strings (and only
\* equal strings) have equal digests.
md5_hexdigest8(param_string) == <<"md5(">> \o param_string \o <<")">>

generate_cache_key(ticker, data_type, frequency, period, kwargs) ==
    LET params == key_params(ticker, data_type, frequency, period, kwargs)
        param_string == join_params(sorted_items(params))
        param_hash == md5_hexdigest8(param_string)
    IN  str_upper(ticker) \o <<"_">> \o data_type \o <<"_">>
          \o (IF Truthy(frequency) THEN frequency ELSE <<"none">>) \o <<"_">>
          \o (IF Truthy(period) THEN period ELSE <<"none">>) \o <<"_">> \o param_hash

generate_simple_cache_key(ticker, data_type) ==
    str_upper(ticker) \o <<"_">> \o data_type

\* Cached values: a Python object is its type, whether it has a ticker
\* attribute, and its items when it is a list.
PyNone == [type |-> "NoneType", has_ticker |-> FALSE, items |-> <<>>]
CompanyInfo == [type |-> "CompanyInfo", has_ticker |-> TRUE, items |-> <<>>]
PyList(xs) == [type |-> "list", has_ticker |-> FALSE, items |-> xs]
PyLambda == [type |-> "function", has_ticker |-> FALSE, items |-> <<>>]

isinstance_list(data) == data.type = "list"

validate_cache_data(data, data_type) ==
    IF data = PyNone THEN FALSE
    ELSE CASE data_type = company_info -> data.has_ticker
           [] data_type \in {<<"income_statements">>, <<"balance_sheets">>,
                             <<"cash_flows">>} ->
                 isinstance_list(data) /\ Len(data.items) > 0
           [] data_type = <<"dividends">> -> isinstance_list(data)
           [] data_type = price_data -> isinstance_list(data) /\ Len(data.items) > 0
           [] OTHER -> TRUE

----------------------------------------------------------------------------
(* ConfigManager and CacheConfig *)

DefaultTTL == 24

\* cache_config.get(name, default) on self._config.get('cache', {})
cache_config_get(name, default) ==
    IF name \in DOMAIN config THEN config[name] ELSE default

\* a cache that cannot be switched off
is_cache_enabled_always(data_type) == TRUE

\* what yaml.safe_load gave is not a mapping, or its 'cache' entry is not one:
\* every .get() of the ConfigManager raises AttributeError
ConfigRaises == "malformed" \in DOMAIN config

\* CacheConfig.is_cache_enabled -> ConfigManager.is_cache_enabled: the data type
\* is not looked at, the flag is the one of the whole cache; True when the
\* ConfigManager raises
is_cache_enabled(data_type) ==
    IF ConfigRaises THEN TRUE ELSE cache_config_get("enabled", TRUE)

\* a TTL that is never less than an hour
get_ttl_hours_positive(data_type) ==
    IF cache_config_get("ttl_hours", DefaultTTL) > 0
    THEN cache_config_get("ttl_hours", DefaultTTL) ELSE 1

\* CacheConfig.get_ttl_hours -> ConfigManager.get_cache_ttl_hours; 24 when the
\* ConfigManager raises
get_ttl_hours(data_type) ==
    IF ConfigRaises THEN DefaultTTL ELSE cache_config_get("ttl_hours", DefaultTTL)

\* os.path.expanduser: a leading "~" becomes the home directory
expanduser(path) ==
    IF path # <<>> /\ path[1] = "~" THEN <<"/", "home">> \o Tail(path) ELSE path

\* pathlib.Path(s), as str() shows it: a leading "./" is dropped
RECURSIVE Path(_)
Path(s) ==
    IF Len(s) >= 2 /\ s[1] = "." /\ s[2] = "/" THEN Path(Tail(Tail(s)))
    ELSE IF s = <<>> THEN <<".">> ELSE s

\* ConfigManager.get_cache_directory
get_cache_directory ==
    expanduser(cache_config_get("directory", <<".", "/", "cache_data">>))

\* CacheConfig.get_cache_dir; Path("data") when the ConfigManager raises
get_cache_dir ==
    IF ConfigRaises THEN Path(<<"data">>) ELSE Path(get_cache_directory)

\* the fallback list of CacheConfig.get_all_data_types
DefaultDataTypes ==
    {company_info, <<"income_statements">>, <<"balance_sheets">>, <<"cash_flows">>,
     <<"dividends">>, price_data}

\* the data types the configuration file declares, the keys of its data.cache
\* section (kept in the field "data_cache" of config)
DeclaredDataTypes == IF "data_cache" \in DOMAIN config THEN config.data_cache ELSE {}

\* CacheConfig.get_all_data_types: get_config() returns a dict, and
\* config.data.cache on a dict raises AttributeError whatever the file declares;
\* the except branch answers with the fallback list
get_all_data_types == DefaultDataTypes

\* CacheConfig.get_cache_directories
get_cache_directories == get_all_data_types

\* CacheManager._create_cache_directories: mkdir(parents=True, exist_ok=True) of
\* <base>/cache/<data_type> for each of them; ds the directories there are
create_cache_directories(ds) == ds \cup get_cache_directories

Configs == [enabled : BOOLEAN, ttl_hours : TTLs]

----------------------------------------------------------------------------
(* pickle and the file system *)

STOP == "."

NoFile == <<"<no file>">>

EmptyDict == [k \in {} |-> PyNone]

picklable(data) == data.type # "function"

\* a pickle that loses the attributes of the object it writes
dumps_lossy(data) == <<data.type, FALSE, data.items, STOP>>

\* pickle.dump of a cached value / of the index
dumps(data) == <<data.type, data.has_ticker, data.items, STOP>>

dumps_index(idx) == <<"dict", idx, STOP>>

\* the bytes of a file that were never written: a write() past its end leaves
\* a gap that reads as zero bytes
Zero == "0x00"

\* a stream pickle.load accepts: one that goes on past its header to a STOP; a
\* truncated one raises, and so does one that starts with a gap
loadable(stream) == Len(stream) > 2 /\ stream[Len(stream)] = STOP /\ stream[1] # Zero

loads(stream) == [type |-> stream[1], has_ticker |-> stream[2], items |-> stream[3]]

loads_index(stream) == stream[2]

\* os.path.getsize of a blob
getsize(stream) == IF stream = <<>> THEN 0 ELSE Len(stream) + Len(stream[3])

\* what an interrupted write leaves behind: the file open(.., 'wb') truncated
Truncated == <<>>

dict_del(d, k) == [x \in DOMAIN d \ {k} |-> d[x]]

\* an assignment that keeps what the key already has
dict_set_keep(d, k, v) == [x \in DOMAIN d \cup {k} |-> IF x \in DOMAIN d THEN d[x] ELSE v]

dict_set(d, k, v) == [x \in DOMAIN d \cup {k} |-> IF x = k THEN v ELSE d[x]]

----------------------------------------------------------------------------
(* CacheManager *)

\* one blob per data type, whatever the key
get_cache_file_path_by_type(data_type, cache_key) ==
    <<"cache", "/">> \o data_type \o <<"/", "blob", ".pkl">>

get_cache_file_path(data_type, cache_key) ==
    <<"cache", "/">> \o data_type \o <<"/">> \o cache_key \o <<".pkl">>

\* a validity that looks the TTL up again instead of using the stored expiry
is_cache_valid_current_ttl(metadata, fs, t) ==
    /\ t < metadata.created_at + get_ttl_hours(metadata.data_type)
    /\ metadata.file_path \in DOMAIN fs

is_cache_valid(metadata, fs, t) ==
    t < metadata.expires_at /\ metadata.file_path \in DOMAIN fs

\* a save that never reaches the disk
save_cache_index_dropped(idx, ixf, sv) == ixf

\* a save that keeps the entries on disk that the saver does not have
save_cache_index_merging(idx, ixf, sv) ==
    IF ixf # NoFile /\ loadable(ixf)
    THEN dumps_index([k \in DOMAIN loads_index(ixf) \cup DOMAIN idx |->
                        IF k \in DOMAIN idx THEN idx[k] ELSE loads_index(ixf)[k]])
    ELSE dumps_index(idx)

\* a save that tries again until the index is on the disk
save_cache_index_retried(idx, ixf, sv) == dumps_index(idx)

\* sv: how this save goes: "ok", "open" (open(.., 'wb') raises, the file is as it
\* was) or "dump" (pickle.dump raises part-way, the file stays truncated)
save_cache_index(idx, ixf, sv) ==
    CASE sv = "ok" -> dumps_index(idx)
      [] sv = "open" -> ixf
      [] sv = "dump" -> Truncated

\* a load without the try: an index that cannot be read or unpickled raises
load_cache_index_unguarded(ixf, rd) ==
    IF ixf = NoFile THEN [raised |-> FALSE, idx |-> EmptyDict]
    ELSE IF rd /\ loadable(ixf) THEN [raised |-> FALSE, idx |-> loads_index(ixf)]
         ELSE [raised |-> TRUE, idx |-> EmptyDict]

\* rd: whether reading the index file succeeds
load_cache_index(ixf, rd) ==
    IF ixf = NoFile THEN [raised |-> FALSE, idx |-> EmptyDict]
    ELSE IF rd /\ loadable(ixf) THEN [raised |-> FALSE, idx |-> loads_index(ixf)]
         ELSE [raised |-> FALSE, idx |-> EmptyDict]

\* the key both get_cached_data and store_cached_data compute
cache_key_of(req) ==
    LET sanitized_ticker == sanitize_ticker(req.ticker)
    IN  IF Truthy(req.frequency) \/ Truthy(req.period) \/ DOMAIN req.kwargs # {}
        THEN generate_cache_key(sanitized_ticker, req.data_type, req.frequency,
                                req.period, req.kwargs)
        ELSE generate_simple_cache_key(sanitized_ticker, req.data_type)

\* an eviction that forgets the blob
remove_cache_entry_index_only(st, cache_key, io) ==
    IF cache_key \notin DOMAIN st.idx THEN st
    ELSE LET idx2 == dict_del(st.idx, cache_key)
         IN  [st EXCEPT !.idx = idx2,
                        !.index_file = save_cache_index(idx2, st.index_file, io.save),
                        !.fails = st.fails \cup (IF io.save = "ok" THEN {}
                                                 ELSE {"index_write"}),
                        !.saves = st.saves + 1]

\* a removal that gives up when the blob cannot be deleted: the entry stays
remove_cache_entry_unless_undeletable(st, cache_key, io) ==
    IF cache_key \notin DOMAIN st.idx THEN st
    ELSE LET metadata == st.idx[cache_key]
             exists == metadata.file_path \in DOMAIN st.files
             idx2 == dict_del(st.idx, cache_key)
         IN  IF exists /\ cache_key \in io.del
             THEN [st EXCEPT !.fails = @ \cup {"blob_delete"}]
             ELSE [idx |-> idx2,
                   files |-> IF exists THEN dict_del(st.files, metadata.file_path)
                             ELSE st.files,
                   index_file |-> save_cache_index(idx2, st.index_file, io.save),
                   fails |-> st.fails
                               \cup (IF io.save = "ok" THEN {} ELSE {"index_write"}),
                   saves |-> st.saves + 1]

\* st = [idx, files, index_file, fails, saves]; io = [del: the keys whose blob
\* cannot be deleted, save: how the index saves go]
remove_cache_entry(st, cache_key, io) ==
    IF cache_key \notin DOMAIN st.idx THEN st
    ELSE LET metadata == st.idx[cache_key]
             exists == metadata.file_path \in DOMAIN st.files
             del_fails == exists /\ cache_key \in io.del
             idx2 == dict_del(st.idx, cache_key)
         IN  [idx |-> idx2,
              files |-> IF exists /\ ~del_fails
                        THEN dict_del(st.files, metadata.file_path) ELSE st.files,
              index_file |-> save_cache_index(idx2, st.index_file, io.save),
              fails |-> st.fails
                          \cup (IF del_fails THEN {"blob_delete"} ELSE {})
                          \cup (IF io.save = "ok" THEN {} ELSE {"index_write"}),
              saves |-> st.saves + 1]

\* what a handler hands back: the manager's dict, the disk, and its result
Outcome(idx, fs, ixf, key, branch, ret, ok, count, fails, saves) ==
    [idx |-> idx, files |-> fs, index_file |-> ixf, key |-> key, branch |-> branch,
     ret |-> ret, ok |-> ok, count |-> count, fails |-> fails, saves |-> saves]

\* a get whose hit slides the entry's expiry forward (what get_cached_data does not do)
get_cached_data_touching(idx, fs, ixf, req, io, t) ==
    LET cache_key == cache_key_of(req)
    IN  IF cache_key \in DOMAIN idx /\ idx[cache_key].file_path \in DOMAIN fs
           /\ loadable(fs[idx[cache_key].file_path])
        THEN Outcome(dict_set(idx, cache_key,
                              [idx[cache_key] EXCEPT !.expires_at = @ + 1]),
                     fs, ixf, cache_key, "hit", loads(fs[idx[cache_key].file_path]),
                     TRUE, 0, {}, 0)
        ELSE Outcome(idx, fs, ixf, cache_key, "absent", PyNone, FALSE, 0, {}, 0)


\* io = [read: whether the blob can be read, del, save]
get_cached_data(idx, fs, ixf, req, io, t) ==
    IF ~is_cache_enabled(req.data_type)
    THEN Outcome(idx, fs, ixf, <<>>, "disabled", PyNone, FALSE, 0, {}, 0)
    ELSE
    LET cache_key == cache_key_of(req)
        st == [idx |-> idx, files |-> fs, index_file |-> ixf, fails |-> {}, saves |-> 0]
        evict(branch, failed) ==
            LET r == remove_cache_entry(st, cache_key, io)
            IN  Outcome(r.idx, r.files, r.index_file, cache_key, branch, PyNone,
                        FALSE, 0, r.fails \cup failed, r.saves)
    IN  IF cache_key \notin DOMAIN idx
        THEN Outcome(idx, fs, ixf, cache_key, "absent", PyNone, FALSE, 0, {}, 0)
        ELSE
        LET metadata == idx[cache_key]
        IN  IF ~is_cache_valid(metadata, fs, t)
            THEN evict(IF t < metadata.expires_at THEN "missing" ELSE "expired", {})
            ELSE IF ~io.read THEN evict("unreadable", {"blob_read"})
            ELSE IF ~loadable(fs[metadata.file_path]) THEN evict("unreadable", {})
            ELSE LET data == loads(fs[metadata.file_path])
                 IN  IF ~validate_cache_data(data, req.data_type)
                     THEN evict("bad_shape", {})
                     ELSE Outcome(idx, fs, ixf, cache_key, "hit", data, TRUE, 0, {}, 0)

\* os.path.getsize of a blob somebody else may be writing
getsize_now(stream) == IF Len(stream) < 3 THEN Len(stream) ELSE getsize(stream)

\* store_cached_data from the end of its `with open(..) as f: pickle.dump(..)`
\* on: getsize, the metadata, the index, the save.  getsize raises when the file
\* has been removed meanwhile; the except branch then finds no file to unlink
store_written(idx, fs, ixf, req, data, t) ==
    LET sanitized_ticker == sanitize_ticker(req.ticker)
        cache_key == cache_key_of(req)
        file_path == get_cache_file_path(req.data_type, cache_key)
    IN  IF file_path \notin DOMAIN fs
        THEN Outcome(idx, fs, ixf, cache_key, "failed", PyNone, FALSE, 0, {"getsize"}, 0)
        ELSE
        LET metadata == [cache_key |-> cache_key,
                         ticker |-> str_upper(sanitized_ticker),
                         data_type |-> req.data_type,
                         frequency |-> req.frequency,
                         period |-> req.period,
                         created_at |-> t,
                         expires_at |-> t + get_ttl_hours(req.data_type),
                         file_path |-> file_path,
                         file_size |-> getsize_now(fs[file_path])]
            idx1 == dict_set(idx, cache_key, metadata)
        IN  Outcome(idx1, fs, save_cache_index(idx1, ixf, "ok"), cache_key,
                    "stored", PyNone, TRUE, 0, {}, 1)

\* a put that checks the shape of the value first and refuses a value that a
\* later get would reject
store_cached_data_checked(idx, fs, ixf, req, data, io, t) ==
    IF ~validate_cache_data(data, req.data_type)
    THEN Outcome(idx, fs, ixf, cache_key_of(req), "bad_shape", PyNone, FALSE, 0, {}, 0)
    ELSE store_written(idx, dict_set(fs, get_cache_file_path(req.data_type,
                                                             cache_key_of(req)),
                                     dumps(data)),
                       ixf, req, data, t)

\* io = [blob: "ok", "open" (open(.., 'wb') raises) or "dump" (pickle.dump raises
\* part-way); unlink: whether the clean-up's unlink succeeds; save]
store_cached_data(idx, fs, ixf, req, data, io, t) ==
    IF ~is_cache_enabled(req.data_type)
    THEN Outcome(idx, fs, ixf, <<>>, "disabled", PyNone, FALSE, 0, {}, 0)
    ELSE IF ~is_valid_ticker(req.ticker)
    THEN Outcome(idx, fs, ixf, <<>>, "invalid_ticker", PyNone, FALSE, 0, {}, 0)
    ELSE
    LET sanitized_ticker == sanitize_ticker(req.ticker)
        cache_key == cache_key_of(req)
        file_path == get_cache_file_path(req.data_type, cache_key)
        \* the except branch: unlink the file if it exists, swallow a failing unlink
        failed(fs1, what) ==
            LET cleaned == file_path \in DOMAIN fs1 /\ io.unlink
            IN  Outcome(idx, IF cleaned THEN dict_del(fs1, file_path) ELSE fs1, ixf,
                        cache_key, "failed", PyNone, FALSE, 0,
                        what \cup (IF file_path \in DOMAIN fs1 /\ ~io.unlink
                                   THEN {"unlink"} ELSE {}), 0)
    IN  \* open(file_path, 'wb') creates no directory: without the directory of
        \* the data type it raises FileNotFoundError
        IF req.data_type \notin dirs THEN failed(fs, {"blob_write"})
        ELSE IF io.blob = "open" THEN failed(fs, {"blob_write"})
        ELSE IF io.blob = "dump" THEN failed(dict_set(fs, file_path, Truncated), {"blob_write"})
        ELSE IF ~picklable(data) THEN failed(dict_set(fs, file_path, Truncated), {"pickling"})
        ELSE
        LET fs1 == dict_set(fs, file_path, dumps(data))
            ttl_hours == get_ttl_hours(req.data_type)
            expires_at == t + ttl_hours
            file_size == getsize(fs1[file_path])
            metadata == [cache_key |-> cache_key,
                         ticker |-> str_upper(sanitized_ticker),
                         data_type |-> req.data_type,
                         frequency |-> req.frequency,
                         period |-> req.period,
                         created_at |-> t,
                         expires_at |-> expires_at,
                         file_path |-> file_path,
                         file_size |-> file_size]
            idx1 == dict_set(idx, cache_key, metadata)
        IN  Outcome(idx1, fs1, save_cache_index(idx1, ixf, io.save), cache_key,
                    "stored", PyNone, TRUE, 0,
                    IF io.save = "ok" THEN {} ELSE {"index_write"}, 1)

\* pickle.dump hands the stream to the file in several write() calls: ChunkLen
\* objects at a time
ChunkLen == 2

Chunk(stream, pos) ==
    SubSeq(stream, pos + 1, IF pos + ChunkLen < Len(stream) THEN pos + ChunkLen
                            ELSE Len(stream))

\* write(chunk) through a file object whose offset is pos: what lies under the
\* chunk is overwritten, what lies after it stays
write_at(stream, pos, chunk) ==
    LET end == pos + Len(chunk)
    IN  [i \in 1..(IF Len(stream) > end THEN Len(stream) ELSE end) |->
            IF i > pos /\ i <= end THEN chunk[i - pos]
            ELSE IF i <= Len(stream) THEN stream[i] ELSE Zero]

\* the loop `for cache_key in keys_to_remove: self._remove_cache_entry(cache_key)`
RECURSIVE remove_entries(_, _, _)
remove_entries(st, keys_to_remove, io) ==
    IF keys_to_remove = {} THEN st
    ELSE LET k == CHOOSE x \in keys_to_remove : TRUE
         IN  remove_entries(remove_cache_entry(st, k, io), keys_to_remove \ {k}, io)

clean(idx, fs, ixf, keys_to_remove, io) ==
    LET st == [idx |-> idx, files |-> fs, index_file |-> ixf, fails |-> {}, saves |-> 0]
        r == remove_entries(st, keys_to_remove, io)
    IN  Outcome(r.idx, r.files, r.index_file, <<>>, "cleaned", PyNone, TRUE,
                Cardinality(keys_to_remove), r.fails, r.saves)

\* a clean-up by ticker that compares the ticker as it was typed
clean_ticker_cache_raw(idx, fs, ixf, ticker, io) ==
    clean(idx, fs, ixf, {k \in DOMAIN idx : idx[k].ticker = ticker}, io)

clean_ticker_cache(idx, fs, ixf, ticker, io) ==
    LET ticker_upper == str_upper(sanitize_ticker(ticker))
    IN  clean(idx, fs, ixf, {k \in DOMAIN idx : idx[k].ticker = ticker_upper}, io)

clean_data_type_cache(idx, fs, ixf, data_type, io) ==
    clean(idx, fs, ixf, {k \in DOMAIN idx : idx[k].data_type = data_type}, io)

clean_expired_cache(idx, fs, ixf, io, t) ==
    clean(idx, fs, ixf,
          {k \in DOMAIN idx : t >= idx[k].expires_at \/ idx[k].file_path \notin DOMAIN fs},
          io)

clean_all_cache(idx, fs, ixf, io) == clean(idx, fs, ixf, DOMAIN idx, io)

RECURSIVE sum_sizes(_, _)
sum_sizes(idx, keys) ==
    IF keys = {} THEN 0
    ELSE LET k == CHOOSE x \in keys : TRUE
         IN  idx[k].file_size + sum_sizes(idx, keys \ {k})

\* statistics that count as expired what get treats as invalid
get_cache_stats_by_validity(idx, fs, t) ==
    LET total_entries == Cardinality(DOMAIN idx)
        expired_entries == Cardinality({k \in DOMAIN idx : ~is_cache_valid(idx[k], fs, t)})
    IN  [total_entries |-> total_entries,
         valid_entries |-> total_entries - expired_entries,
         expired_entries |-> expired_entries,
         total_size_bytes |-> 0,
         stats_by_type |-> EmptyDict]

get_cache_stats(idx, fs, t) ==
    LET total_entries == Cardinality(DOMAIN idx)
        expired_entries == Cardinality({k \in DOMAIN idx : t >= idx[k].expires_at})
        total_size == sum_sizes(idx, {k \in DOMAIN idx : idx[k].file_path \in DOMAIN fs})
        of_type(dt) == {k \in DOMAIN idx : idx[k].data_type = dt}
        stats_by_type == [dt \in {idx[k].data_type : k \in DOMAIN idx} |->
                            [count |-> Cardinality(of_type(dt)),
                             size |-> sum_sizes(idx, of_type(dt))]]
    IN  [total_entries |-> total_entries,
         valid_entries |-> total_entries - expired_entries,
         expired_entries |-> expired_entries,
         total_size_bytes |-> total_size,
         stats_by_type |-> stats_by_type]

\* entries.sort(key=created_at, reverse=True): the newest first; entries created
\* at the same time come in one fixed order
RECURSIVE sort_newest_first(_, _)
sort_newest_first(idx, keys) ==
    IF keys = {} THEN <<>>
    ELSE LET k == CHOOSE x \in keys :
                    \A y \in keys : idx[x].created_at >= idx[y].created_at
         IN  <<idx[k]>> \o sort_newest_first(idx, keys \ {k})

list_cache_entries(idx, ticker, data_type) ==
    LET kept == {k \in DOMAIN idx :
                    /\ ~(Truthy(ticker)
                         /\ idx[k].ticker # str_upper(sanitize_ticker(ticker)))
                    /\ ~(Truthy(data_type) /\ idx[k].data_type # data_type)}
    IN  sort_newest_first(idx, kept)

----------------------------------------------------------------------------
(* CacheCommand: the command line `cache <ACTION> [ticker]` *)

\* BaseCommand.handle_success and handle_error: the exit code of the command
handle_success == 0

handle_error == 1

\* the name of the command and its aliases
command_names == {<<"cache">>, <<"c">>}

valid_actions == {<<"stats">>, <<"clean">>, <<"clear">>, <<"info">>}

validate_args(args) == Len(args) >= 1 /\ str_lower(args[1]) \in valid_actions

\* what a run of the command leaves: the outcome of the cache operation, with
\* the exit code in count
Exit(o, branch, code) == [o EXCEPT !.branch = branch, !.count = code, !.ok = (code = 0)]

\* _show_cache_stats: prints get_cache_stats(idx, fs, t), changes nothing
show_cache_stats(idx, fs, ixf, t) ==
    LET stats == get_cache_stats(idx, fs, t)
        shown == Outcome(idx, fs, ixf, <<>>, "stats", PyNone, TRUE,
                         stats.total_entries, {}, 0)
    IN  Exit(shown, "stats", handle_success)

clean_expired_cache_command(idx, fs, ixf, io, t) ==
    LET o == clean_expired_cache(idx, fs, ixf, io, t)
    IN  IF o.count > 0 THEN Exit(o, "cleaned", handle_success)
        ELSE Exit(o, "none_expired", handle_success)

\* a clear that takes a ticker without entries for an error
clear_cache_found_only(idx, fs, ixf, ticker, io) ==
    IF Truthy(ticker)
    THEN LET o == clean_ticker_cache(idx, fs, ixf, ticker, io)
         IN  IF o.count > 0 THEN Exit(o, "cleared", handle_success)
             ELSE Exit(o, "none_found", handle_error)
    ELSE Exit(clean_all_cache(idx, fs, ixf, io), "cleared_all", handle_success)

\* _clear_cache
clear_cache(idx, fs, ixf, ticker, io) ==
    IF Truthy(ticker)
    THEN LET o == clean_ticker_cache(idx, fs, ixf, ticker, io)
         IN  IF o.count > 0 THEN Exit(o, "cleared", handle_success)
             ELSE Exit(o, "none_found", handle_success)
    ELSE Exit(clean_all_cache(idx, fs, ixf, io), "cleared_all", handle_success)

\* _show_cache_info: prints CacheConfig.get_cache_stats_summary(), which never
\* raises
show_cache_info(idx, fs, ixf) ==
    Exit(Outcome(idx, fs, ixf, <<>>, "info", PyNone, TRUE, 0, {}, 0), "info",
         handle_success)

\* execute(args) in a process of its own: get_cache_manager() makes the
\* CacheManager, which creates the directories (io.mkdir: whether it can) and
\* loads the index (io.read: whether it can be read)
execute(args, fs, ixf, io, t) ==
    LET untouched == Outcome(EmptyDict, fs, ixf, <<>>, "", PyNone, FALSE, 0, {}, 0)
    IN  IF ~validate_args(args) THEN Exit(untouched, "invalid_args", 1)
        ELSE IF ~io.mkdir
        THEN [Exit(untouched, "raised", handle_error) EXCEPT !.fails = {"mkdir"}]
        ELSE LET action == str_lower(args[1])
                 idx == load_cache_index(ixf, io.read).idx
             IN  CASE action = <<"stats">> -> show_cache_stats(idx, fs, ixf, t)
                   [] action = <<"clean">> ->
                        clean_expired_cache_command(idx, fs, ixf, io, t)
                   [] action = <<"clear">> ->
                        clear_cache(idx, fs, ixf,
                                    IF Len(args) > 1 THEN args[2] ELSE None, io)
                   [] action = <<"info">> -> show_cache_info(idx, fs, ixf)

----------------------------------------------------------------------------
(* Inputs and the environment *)

NoKwargs == <<>>

Request(ticker, data_type, frequency, period, kwargs) ==
    [ticker |-> ticker, data_type |-> data_type, frequency |-> frequency,
     period |-> period, kwargs |-> kwargs]

R_ab_info == Request(<<"a", "b">>, company_info, None, None, NoKwargs)
R_AB_info == Request(<<"A", "B", " ">>, company_info, None, None, NoKwargs)
R_ab_price == Request(<<"a", "b">>, price_data, None, <<"1y">>, NoKwargs)
R_bc_price == Request(<<"b", ".", "c">>, price_data, None, None, NoKwargs)
R_bad_info == Request(<<"@">>, company_info, None, None, NoKwargs)

\* Spec: one key and a ticker is_valid_ticker rejects
Requests == {R_ab_info, R_bad_info}

\* SpecConfig: the key spelled in two ways
RequestsConfig == {R_ab_info, R_AB_info}

\* SpecKeys: three keys, two tickers, two data types, both forms of key
RequestsKeys == {R_ab_info, R_ab_price, R_bc_price}

AllRequests == Requests \cup RequestsConfig \cup RequestsKeys

Tickers == {r.ticker : r \in AllRequests}

\* a value of the right shape for company_info, one of the right shape for
\* price_data, and one pickle cannot serialise
Values == {CompanyInfo, PyList(<<1>>), PyLambda}

Keys == {cache_key_of(r) : r \in AllRequests}

Paths == {get_cache_file_path(r.data_type, cache_key_of(r)) : r \in AllRequests}

SaveModes == {"ok", "open", "dump"}

\* the unlink is only reached when the write failed, the save only when it did not
StoreIO == {io \in [blob : {"ok", "open", "dump"}, unlink : BOOLEAN, save : SaveModes] :
               IF io.blob = "ok" THEN io.unlink ELSE io.save = "ok"}

GetIO == [read : BOOLEAN, del : {{}, Keys}, save : SaveModes]

CleanIO == [del : {{}, Keys}, save : SaveModes]

StartIO == [mkdir : BOOLEAN, read : BOOLEAN]

NoRequest == Request(None, None, None, None, NoKwargs)

Result(op, p, req, data, o, raised) ==
    [op |-> op, proc |-> p, req |-> req, value |-> data, key |-> o.key,
     branch |-> o.branch, ret |-> o.ret, ok |-> o.ok, count |-> o.count,
     fails |-> o.fails, saves |-> o.saves, raised |-> raised]

\* a process that has no blob open for writing
Idle == [req |-> NoRequest, data |-> PyNone, pos |-> 0, linked |-> FALSE]

\* the path a writer has open
PathOf(w) == get_cache_file_path(w.req.data_type, cache_key_of(w.req))

\* os.remove of a file somebody has open for writing: the writer keeps writing
\* to a file that has no name any more; fs1 is the disk after the step
Detach(fs1) ==
    [q \in Procs |-> IF writing[q].linked /\ PathOf(writing[q]) \notin DOMAIN fs1
                     THEN [writing[q] EXCEPT !.linked = FALSE] ELSE writing[q]]

\* process p holds a CacheManager and is not in the middle of a put
Ready(p) == manager[p] /\ writing[p] = Idle

Quiet(branch) == Outcome(EmptyDict, EmptyDict, NoFile, <<>>, branch, PyNone, FALSE, 0, {}, 0)

----------------------------------------------------------------------------
(* The state machine *)

Init ==
    /\ cache_index = [p \in Procs |-> EmptyDict]
    /\ files = EmptyDict
    /\ index_file = NoFile
    /\ config = [enabled |-> TRUE, ttl_hours |-> 1]
    /\ now = 0
    /\ manager = [p \in Procs |-> p = 1]
    /\ res = Result("init", 1, NoRequest, PyNone, [Quiet("new") EXCEPT !.ok = TRUE], FALSE)
    /\ latest = EmptyDict
    /\ dirs = create_cache_directories({})
    /\ writing = [p \in Procs |-> Idle]

\* the effect of a handler of process p on the manager and the disk
Effect(p, o) ==
    /\ cache_index' = [cache_index EXCEPT ![p] = o.idx]
    /\ files' = o.files
    /\ index_file' = o.index_file

\* CacheManager.__init__ in a new process p (the old one, if any, has exited)
Start(p, io) ==
    LET loaded == load_cache_index(index_file, io.read)
        raised == ~io.mkdir \/ loaded.raised
        branch == IF raised THEN "raised"
                  ELSE IF index_file = NoFile THEN "new"
                  ELSE IF io.read /\ loadable(index_file) THEN "loaded" ELSE "unreadable"
        fails == (IF ~io.mkdir THEN {"mkdir"} ELSE {})
                   \cup (IF io.mkdir /\ index_file # NoFile /\ ~io.read
                         THEN {"index_read"} ELSE {})
        o == Outcome(IF raised THEN EmptyDict ELSE loaded.idx, files, index_file,
                     <<>>, branch, PyNone, ~raised, 0, fails, 0)
    IN  /\ Effect(p, o)
        /\ manager' = [manager EXCEPT ![p] = ~raised]
        /\ res' = Result("init", p, NoRequest, PyNone, o, raised)
        /\ dirs' = IF raised THEN dirs ELSE create_cache_directories(dirs)
        /\ UNCHANGED <<config, now, latest>>
        /\ writing' = [Detach(files') EXCEPT ![p] = Idle]

Get(p, req, io) ==
    /\ Ready(p)
    /\ LET o == get_cached_data(cache_index[p], files, index_file, req, io, now)
       IN  /\ Effect(p, o)
           /\ res' = Result("get", p, req, PyNone, o, FALSE)
    /\ UNCHANGED <<config, now, manager, latest, dirs>>
    /\ writing' = Detach(files')

Store(p, req, data, io) ==
    /\ Ready(p)
    /\ LET o == store_cached_data(cache_index[p], files, index_file, req, data, io, now)
       IN  /\ Effect(p, o)
           /\ res' = Result("store", p, req, data, o, FALSE)
           /\ latest' = IF o.ok THEN dict_set(latest, o.key, data) ELSE latest
    /\ UNCHANGED <<config, now, manager, dirs>>
    /\ writing' = Detach(files')

Cleaned(op, p, req, o) ==
    /\ Ready(p)
    /\ Effect(p, o)
    /\ res' = Result(op, p, req, PyNone, o, FALSE)
    /\ UNCHANGED <<config, now, manager, latest, dirs>>
    /\ writing' = Detach(files')

CleanTicker(p, ticker, io) ==
    Cleaned("clean_ticker", p, [NoRequest EXCEPT !.ticker = ticker],
            clean_ticker_cache(cache_index[p], files, index_file, ticker, io))

CleanDataType(p, data_type, io) ==
    Cleaned("clean_data_type", p, [NoRequest EXCEPT !.data_type = data_type],
            clean_data_type_cache(cache_index[p], files, index_file, data_type, io))

CleanExpired(p, io) ==
    Cleaned("clean_expired", p, NoRequest,
            clean_expired_cache(cache_index[p], files, index_file, io, now))

CleanAll(p, io) ==
    Cleaned("clean_all", p, NoRequest,
            clean_all_cache(cache_index[p], files, index_file, io))

\* get_cache_stats and list_cache_entries only read: what they return is
\* get_cache_stats(cache_index[p], files, now) and list_cache_entries(cache_index[p], ..)
ReadOnly(op, p) ==
    /\ Ready(p)
    /\ res' = Result(op, p, NoRequest, PyNone,
                     Outcome(cache_index[p], files, index_file, <<>>, "read", PyNone,
                             TRUE, 0, {}, 0), FALSE)
    /\ UNCHANGED <<cache_index, files, index_file, config, now, manager, latest, dirs, writing>>

Stats(p) == ReadOnly("stats", p)

List(p) == ReadOnly("list", p)

\* time passes; the last operation stays the last operation
Tick ==
    /\ now < MaxTime
    /\ now' = now + 1
    /\ UNCHANGED <<cache_index, files, index_file, config, res, manager, latest, dirs, writing>>

\* set_config_manager with another configuration
SetConfig(c) ==
    /\ c # config
    /\ config' = c
    /\ res' = Result("config", 0, NoRequest, PyNone, Quiet("config"), FALSE)
    /\ UNCHANGED <<cache_index, files, index_file, now, manager, latest, dirs, writing>>

\* somebody else deletes or truncates a blob
Tamper(path, how) ==
    /\ path \in DOMAIN files
    /\ files' = IF how = "delete" THEN dict_del(files, path)
                ELSE dict_set(files, path, Truncated)
    /\ files' # files
    /\ res' = Result("tamper", 0, NoRequest, PyNone, Quiet(how), FALSE)
    /\ UNCHANGED <<cache_index, index_file, config, now, manager, latest, dirs>>
    /\ writing' = Detach(files')

NoStoreFault == [blob |-> "ok", unlink |-> TRUE, save |-> "ok"]
NoGetFault == [read |-> TRUE, del |-> {}, save |-> "ok"]
NoCleanFault == [del |-> {}, save |-> "ok"]
NoStartFault == [mkdir |-> TRUE, read |-> TRUE]

\* One process, one key, every fault of the disk.
Next ==
    \/ \E io \in StartIO : Start(1, io)
    \/ \E req \in Requests, io \in GetIO : Get(1, req, io)
    \/ \E req \in Requests, data \in Values, io \in StoreIO : Store(1, req, data, io)
    \/ \E req \in Requests, io \in CleanIO : CleanTicker(1, req.ticker, io)
    \/ \E dt \in DataTypes, io \in CleanIO : CleanDataType(1, dt, io)
    \/ \E io \in CleanIO : CleanExpired(1, io)
    \/ \E io \in CleanIO : CleanAll(1, io)
    \/ Stats(1)
    \/ List(1)
    \/ \E path \in Paths, how \in {"delete", "truncate"} : Tamper(path, how)
    \/ Tick

Spec == Init /\ [][Next]_vars

\* One process, one key, a configuration that changes, a disk that works.
NextConfig ==
    \/ Start(1, NoStartFault)
    \/ \E req \in RequestsConfig : Get(1, req, NoGetFault)
    \/ \E req \in RequestsConfig, data \in Values : Store(1, req, data, NoStoreFault)
    \/ CleanExpired(1, NoCleanFault)
    \/ \E c \in Configs : SetConfig(c)
    \/ Tick

SpecConfig == Init /\ [][NextConfig]_vars

\* One process, two keys of one data type, two values of its shape, puts that
\* fail, nobody else touching the blobs.
RequestsHit == {R_ab_price, R_bc_price}

ValuesHit == {PyList(<<1>>), PyList(<<2>>)}

StoreIOHit == {io \in StoreIO : io.blob # "open" /\ io.save # "dump"}

NextHit ==
    \/ \E req \in RequestsHit, io \in {NoGetFault, [NoGetFault EXCEPT !.read = FALSE]} :
          Get(1, req, io)
    \/ \E req \in RequestsHit, data \in ValuesHit, io \in StoreIOHit :
          Store(1, req, data, io)
    \/ CleanAll(1, NoCleanFault)
    \/ Tick

SpecHit == Init /\ [][NextHit]_vars

\* One process, three keys over two tickers and two data types, blobs that
\* cannot be deleted, blobs somebody else deletes.
ValueOf(req) == IF req.data_type = company_info THEN CompanyInfo ELSE PyList(<<1>>)

CleanIOKeys == {io \in CleanIO : io.save = "ok"}

NextKeys ==
    \/ \E req \in RequestsKeys : Store(1, req, ValueOf(req), NoStoreFault)
    \/ \E ticker \in Tickers, io \in CleanIOKeys : CleanTicker(1, ticker, io)
    \/ \E dt \in DataTypes, io \in CleanIOKeys : CleanDataType(1, dt, io)
    \/ \E io \in CleanIOKeys : CleanExpired(1, io)
    \/ \E io \in CleanIOKeys : CleanAll(1, io)
    \/ \E path \in Paths : Tamper(path, "delete")
    \/ Tick

SpecKeys == Init /\ [][NextKeys]_vars

\* Two processes on one cache directory, two keys, a disk that works.
NextMP ==
    \/ \E p \in Procs : Start(p, NoStartFault)
    \/ \E p \in Procs, req \in RequestsHit : Get(p, req, NoGetFault)
    \/ \E p \in Procs, req \in RequestsHit : Store(p, req, ValueOf(req), NoStoreFault)
    \/ \E p \in Procs : CleanExpired(p, NoCleanFault)
    \/ Tick

SpecMP == Init /\ [][NextMP]_vars

\* One process, tickers spelled in many ways, good and bad, all within the
\* hour, on a disk that works, except that it would not for a put with a bad
\* ticker.
TooLong == <<"a", "a", "a", "a", "a", "a", "a", "a", "a", "a", "a">>

BadTickers == {<<"@">>, <<>>, <<" ">>, None, <<"a", " ", "b">>, <<"a", "/", "b">>, TooLong}

SpellingsOfAB == {<<"a", "b">>, <<"A", "B", " ">>, <<" ", "a", "B">>}

RequestsTickers ==
    {Request(t, company_info, None, None, NoKwargs) :
        t \in BadTickers \cup SpellingsOfAB \cup {<<"b", ".", "c">>}}
      \cup {Request(t, price_data, None, <<"1y">>, NoKwargs) :
               t \in {<<"a", "b">>, <<"A", "B", " ">>}}

NextTickers ==
    \/ \E req \in RequestsTickers, data \in {CompanyInfo, PyList(<<1>>)} :
          \E io \in IF req.ticker \in BadTickers
                    THEN {NoStoreFault, [NoStoreFault EXCEPT !.blob = "open"]}
                    ELSE {NoStoreFault} :
             Store(1, req, data, io)
    \/ \E req \in RequestsTickers : Get(1, req, NoGetFault)

SpecTickers == Init /\ [][NextTickers]_vars

\* One process, one key, every kind of cache.ttl_hours: negative, zero,
\* positive, not configured.
ConfigsTTL == [enabled : {TRUE}, ttl_hours : {-1, 0, 1}] \cup {[enabled |-> TRUE]}

NextTTL ==
    \/ Store(1, R_ab_info, CompanyInfo, NoStoreFault)
    \/ Get(1, R_ab_info, NoGetFault)
    \/ CleanExpired(1, NoCleanFault)
    \/ \E c \in ConfigsTTL : SetConfig(c)
    \/ Tick

SpecTTL == Init /\ [][NextTTL]_vars

\* The key of a request, as get_cached_data and store_cached_data compute it,
\* for one ticker and every combination of discriminators.
Interval(v) == <<"interval", v>>

Adjusted == <<"adjusted", <<"true">> >>

KwargsCodec == {<<>>, <<Interval(<<"1d">>)>>, <<Interval(<<"1h">>)>>, <<Adjusted>>,
                <<Interval(<<"1d">>), Adjusted>>, <<Adjusted, Interval(<<"1d">>)>>}

RequestsCodec ==
    {Request(<<"a", "b">>, dt, f, pd, kw) :
        dt \in DataTypes, f \in {None, <<"none">>, <<"1d">>, <<"1D">>},
        pd \in {None, <<"none">>, <<"1y">>}, kw \in KwargsCodec}

KeyOf(req) ==
    /\ res' = Result("key", 0, req, PyNone,
                     [Quiet("key") EXCEPT !.key = cache_key_of(req)], FALSE)
    /\ UNCHANGED <<cache_index, files, index_file, config, now, manager, latest, dirs, writing>>

\* The three lookups of CacheConfig under every configuration source: no file
\* (an empty mapping), a file that is not a mapping, any part of the cache
\* section missing.
NoConfig == [name \in {} |-> TRUE]

Malformed == [malformed |-> TRUE]

Directories == {<<".", "/", "data">>, <<"~", "/", "c">>}

RECURSIVE ConfigsOver(_)
ConfigsOver(names) ==
    IF names = {} THEN {NoConfig}
    ELSE LET name == CHOOSE n \in names : TRUE
             rest == ConfigsOver(names \ {name})
             range == CASE name = "enabled" -> BOOLEAN
                        [] name = "ttl_hours" -> TTLs
                        [] OTHER -> Directories
         IN  rest \cup {[n \in DOMAIN c \cup {name} |-> IF n = name THEN v ELSE c[n]] :
                            c \in rest, v \in range}

ConfigsPolicy == ConfigsOver({"enabled", "ttl_hours", "directory"}) \cup {Malformed}

IsCacheEnabled(data_type) ==
    /\ res' = Result("is_cache_enabled", 0, [NoRequest EXCEPT !.data_type = data_type], PyNone,
                     [Quiet("policy") EXCEPT !.ok = is_cache_enabled(data_type)], FALSE)
    /\ UNCHANGED <<cache_index, files, index_file, config, now, manager, latest, dirs, writing>>

GetTTLHours(data_type) ==
    /\ res' = Result("get_ttl_hours", 0, [NoRequest EXCEPT !.data_type = data_type], PyNone,
                     [Quiet("policy") EXCEPT !.count = get_ttl_hours(data_type)], FALSE)
    /\ UNCHANGED <<cache_index, files, index_file, config, now, manager, latest, dirs, writing>>

GetCacheDir ==
    /\ res' = Result("get_cache_dir", 0, NoRequest, PyNone,
                     [Quiet("policy") EXCEPT !.key = get_cache_dir], FALSE)
    /\ UNCHANGED <<cache_index, files, index_file, config, now, manager, latest, dirs, writing>>

NextPolicy ==
    \/ \E c \in ConfigsPolicy : SetConfig(c)
    \/ \E dt \in DataTypes : IsCacheEnabled(dt)
    \/ \E dt \in DataTypes : GetTTLHours(dt)
    \/ GetCacheDir

SpecPolicy == Init /\ [][NextPolicy]_vars

\* a put that saves the index first and dies before it writes the blob
store_interrupted_index_first(idx, fs, ixf, req, data, t) ==
    LET o == store_cached_data(idx, fs, ixf, req, data, NoStoreFault, t)
    IN  IF o.branch # "stored" THEN o
        ELSE [o EXCEPT !.files = fs, !.branch = "crashed", !.ok = FALSE]

\* store_cached_data cut short by the death of the process after pickle.dump
\* has written the blob and before _save_cache_index: the blob is on the disk,
\* the index file is as it was; a put that returns before the write is whole
store_interrupted(idx, fs, ixf, req, data, t) ==
    LET o == store_cached_data(idx, fs, ixf, req, data, NoStoreFault, t)
    IN  IF o.branch # "stored" THEN o
        ELSE [o EXCEPT !.index_file = ixf, !.branch = "crashed", !.ok = FALSE,
                       !.saves = 0]

\* process p dies in the middle of a put; its index in memory dies with it
StoreCrash(p, req, data) ==
    /\ Ready(p)
    /\ LET o == store_interrupted(cache_index[p], files, index_file, req, data, now)
       IN  /\ o.branch = "crashed"
           /\ Effect(p, [o EXCEPT !.idx = EmptyDict])
           /\ res' = Result("store_crash", p, req, data, o, FALSE)
    /\ manager' = [manager EXCEPT ![p] = FALSE]
    /\ UNCHANGED <<config, now, latest, dirs>>
    /\ writing' = Detach(files')

RequestsCrash == {R_ab_price, R_bc_price}

ValuesCrash == {PyList(<<1>>), PyList(<<2>>)}

\* One process that puts, dies in a put, and starts again.
NextCrash ==
    \/ \E req \in RequestsCrash, data \in ValuesCrash : Store(1, req, data, NoStoreFault)
    \/ \E req \in RequestsCrash, data \in ValuesCrash : StoreCrash(1, req, data)
    \/ \E rd \in BOOLEAN : Start(1, [NoStartFault EXCEPT !.read = rd])
    \/ \E req \in RequestsCrash : Get(1, req, NoGetFault)
    \/ Stats(1)
    \/ List(1)
    \/ Tick

SpecCrash == Init /\ [][NextCrash]_vars

\* Construction and puts under configurations that declare data types, on a
\* disk where directories can go missing while no process runs.
earnings == <<"earnings">>

ConfigsDirs ==
    {[enabled |-> TRUE, ttl_hours |-> 1]}
      \cup {[enabled |-> TRUE, ttl_hours |-> 1, data_cache |-> ds] :
               ds \in {{company_info}, {earnings}, {company_info, earnings}}}

RequestsDirs ==
    {Request(<<"a", "b">>, dt, None, None, NoKwargs) :
        dt \in {company_info, <<"dividends">>, earnings}}

\* somebody removes the empty directory of a data type while no process runs
RemoveDirectory(data_type) ==
    /\ \A p \in Procs : ~manager[p]
    /\ data_type \in dirs
    /\ \A r \in RequestsDirs :
          r.data_type = data_type
          => get_cache_file_path(data_type, cache_key_of(r)) \notin DOMAIN files
    /\ dirs' = dirs \ {data_type}
    /\ res' = Result("rmdir", 0, [NoRequest EXCEPT !.data_type = data_type], PyNone,
                     Quiet("rmdir"), FALSE)
    /\ UNCHANGED <<cache_index, files, index_file, config, now, manager, latest, writing>>

\* the configuration file changes while no process runs
SetConfigOffline(c) == (\A p \in Procs : ~manager[p]) /\ SetConfig(c)

NextDirs ==
    \/ \E io \in StartIO : Start(1, io)
    \/ \E req \in RequestsDirs : Store(1, req, CompanyInfo, NoStoreFault)
    \/ \E req \in RequestsDirs : Get(1, req, NoGetFault)
    \/ \E c \in ConfigsDirs : SetConfigOffline(c)
    \/ \E dt \in {company_info, earnings} : RemoveDirectory(dt)
    \/ CleanAll(1, NoCleanFault)

SpecDirs == Init /\ [][NextDirs]_vars


\* A put step by step, as another process sees it.
\* open(file_path, 'wb'): the file is there and empty
StoreOpen(p, req, data) ==
    /\ Ready(p)
    /\ is_cache_enabled(req.data_type) /\ is_valid_ticker(req.ticker)
    /\ req.data_type \in dirs /\ picklable(data)
    /\ LET w == [req |-> req, data |-> data, pos |-> 0, linked |-> TRUE]
       IN  /\ files' = dict_set(files, PathOf(w), Truncated)
           /\ writing' = [writing EXCEPT ![p] = w]
    /\ res' = Result("store_open", p, req, data, Quiet("open"), FALSE)
    /\ UNCHANGED <<cache_index, index_file, config, now, manager, latest, dirs>>

\* one write() of pickle.dump, at the writer's own offset
StoreWrite(p) ==
    /\ manager[p] /\ writing[p] # Idle
    /\ writing[p].pos < Len(dumps(writing[p].data))
    /\ LET w == writing[p]
           chunk == Chunk(dumps(w.data), w.pos)
       IN  /\ files' = IF w.linked
                       THEN dict_set(files, PathOf(w),
                                     write_at(files[PathOf(w)], w.pos, chunk))
                       ELSE files
           /\ writing' = [writing EXCEPT ![p].pos = w.pos + Len(chunk)]
           /\ res' = Result("store_write", p, w.req, w.data, Quiet("write"), FALSE)
    /\ UNCHANGED <<cache_index, index_file, config, now, manager, latest, dirs>>

\* the file is closed; the put goes on to its end and returns
StoreClose(p) ==
    /\ manager[p] /\ writing[p] # Idle
    /\ writing[p].pos = Len(dumps(writing[p].data))
    /\ LET w == writing[p]
           o == store_written(cache_index[p], files, index_file, w.req, w.data, now)
       IN  /\ Effect(p, o)
           /\ res' = Result("store", p, w.req, w.data, o, FALSE)
           /\ latest' = IF o.ok THEN dict_set(latest, o.key, w.data) ELSE latest
    /\ writing' = [writing EXCEPT ![p] = Idle]
    /\ UNCHANGED <<config, now, manager, dirs>>

\* another object with a ticker attribute
Profile == [type |-> "Profile", has_ticker |-> TRUE, items |-> <<1>>]

ValuesRace == {CompanyInfo, Profile}

\* Two processes that put and get one key, their file operations interleaved,
\* on a disk that works.
NextRace ==
    \/ \E p \in Procs : Start(p, NoStartFault)
    \/ \E p \in Procs, data \in ValuesRace : StoreOpen(p, R_ab_info, data)
    \/ \E p \in Procs : StoreWrite(p)
    \/ \E p \in Procs : StoreClose(p)
    \/ \E p \in Procs : Get(p, R_ab_info, NoGetFault)

SpecRace == Init /\ [][NextRace]_vars

\* One process that puts, gets, invalidates and starts again, three keys, two
\* of them from tickers that need normalising, an index file that may not
\* read, blobs somebody else deletes.
RequestsIndex == {R_AB_info, R_ab_price, R_bc_price}

NextIndex ==
    \/ \E rd \in BOOLEAN : Start(1, [NoStartFault EXCEPT !.read = rd])
    \/ \E req \in RequestsIndex : Store(1, req, ValueOf(req), NoStoreFault)
    \/ \E req \in RequestsIndex : Get(1, req, NoGetFault)
    \/ \E req \in RequestsIndex : CleanTicker(1, req.ticker, NoCleanFault)
    \/ \E dt \in DataTypes : CleanDataType(1, dt, NoCleanFault)
    \/ CleanExpired(1, NoCleanFault)
    \/ CleanAll(1, NoCleanFault)
    \/ Stats(1)
    \/ List(1)
    \/ \E req \in RequestsIndex :
          Tamper(get_cache_file_path(req.data_type, cache_key_of(req)), "delete")
    \/ Tick

SpecIndex == Init /\ [][NextIndex]_vars


\* The cache command run from the shell, each run a process of its own, on
\* whatever a long-running process and the outside world have left on the disk.
Argvs ==
    {<<n, a>> : n \in command_names,
                a \in {<<"stats">>, <<"clean">>, <<"clear">>, <<"info">>, <<"purge">>}}
      \cup {<<n, <<"clear">>, t>> : n \in command_names,
                                    t \in {<<"a", "b">>, <<"z">>}}
      \cup {<< <<"cache">> >>}

NoCliFault == [mkdir |-> TRUE, read |-> TRUE, del |-> {}, save |-> "ok"]

CliIO == {NoCliFault, [NoCliFault EXCEPT !.mkdir = FALSE],
          [NoCliFault EXCEPT !.read = FALSE], [NoCliFault EXCEPT !.del = Keys],
          [NoCliFault EXCEPT !.save = "open"]}

\* one run of `main.py <argv>` as process p, from start to exit
Cli(p, argv, io) ==
    /\ ~manager[p]
    /\ argv[1] \in command_names
    /\ LET args == Tail(argv)
           o == execute(args, files, index_file, io, now)
       IN  /\ Effect(p, [o EXCEPT !.idx = EmptyDict])
           /\ res' = Result("cli", p,
                            [NoRequest EXCEPT !.ticker = IF Len(args) > 1 THEN args[2]
                                                         ELSE None],
                            PyNone,
                            [o EXCEPT !.key = IF args = <<>> THEN argv[1]
                                              ELSE argv[1] \o args[1]], FALSE)
           /\ dirs' = IF validate_args(args) /\ io.mkdir
                      THEN create_cache_directories(dirs) ELSE dirs
    /\ UNCHANGED <<config, now, manager, latest>>
    /\ writing' = Detach(files')

RequestsCLI == {R_ab_info, R_bc_price}

NextCLI ==
    \/ \E req \in RequestsCLI, sv \in {"ok", "dump"} :
          Store(1, req, ValueOf(req), [NoStoreFault EXCEPT !.save = sv])
    \/ \E argv \in Argvs, io \in CliIO : Cli(2, argv, io)
    \/ \E req \in RequestsCLI, how \in {"delete", "truncate"} :
          Tamper(get_cache_file_path(req.data_type, cache_key_of(req)), how)

SpecCLI == Init /\ [][NextCLI]_vars

NextCodec == \E req \in RequestsCodec : KeyOf(req)

SpecCodec == Init /\ [][NextCodec]_vars

----------------------------------------------------------------------------
(* Properties *)

\* the step is operation op (Tick is the only step that moves the clock, and the
\* only one that leaves res alone)
Did(op) == res'.op = op /\ now' = now

\* the index a process starting now would load, the disk permitting
persisted == load_cache_index(index_file, TRUE).idx

\* C1 (as stated): a put of any picklable value v that returns true, followed in
\* the same process, before the TTL elapses and with nothing in between, by a
\* get with the same arguments, makes the get return v.  Stated here for a get
\* during which no step of the disk fails.
C1_RoundTrip ==
    [][(/\ res.op = "store" /\ res.ok
        /\ Did("get") /\ res'.proc = res.proc /\ res'.req = res.req
        /\ now < cache_index[res.proc][res.key].expires_at
        /\ res'.fails = {})
       => res'.ret = res.value]_vars

\* C1 (amended): the round trip holds for a value that passes the shape check
\* of its data type, when the get can read the blob; for a value of another
\* shape the put returns true all the same, and the get misses and evicts.
C1_RoundTripOfShape ==
    [][(/\ res.op = "store" /\ res.ok
        /\ Did("get") /\ res'.proc = res.proc /\ res'.req = res.req
        /\ now < cache_index[res.proc][res.key].expires_at)
       => /\ (validate_cache_data(res.value, res.req.data_type)
                 /\ "blob_read" \notin res'.fails)
              => res'.ret = res.value
          /\ ~validate_cache_data(res.value, res.req.data_type)
              => /\ res'.ret = PyNone
                 /\ res.key \notin DOMAIN cache_index'[res.proc]]_vars

\* a get has returned the value the last put stored
C1_Witness ==
    /\ res.op = "get" /\ res.branch = "hit"
    /\ res.ret = CompanyInfo
    /\ latest[res.key] = res.ret

\* the steps of the disk that can fail without the operation raising
IOSteps == {"index_read", "index_write", "blob_read", "blob_write", "blob_delete",
            "unlink"}

\* C3 (as stated): whichever of index read, index write, blob read, blob write
\* and blob delete fails, no operation raises; a get during which a step failed
\* returns a miss, a put during which a step failed returns false, and a
\* corrupt index at startup gives an empty index.
C3_FailOpen ==
    /\ res.fails \subseteq IOSteps \cup {"pickling"} => ~res.raised
    /\ (res.op = "get" /\ res.fails # {}) => res.ret = PyNone
    /\ (res.op = "store" /\ res.fails # {}) => ~res.ok
    /\ (res.op = "init" /\ res.branch = "unreadable")
       => cache_index[res.proc] = EmptyDict /\ manager[res.proc]

\* C3 (amended): as above, except that a put reports false only when the blob
\* write (or the pickling) failed: a put whose blob was written and whose index
\* save failed returns true, with the entry in the in-memory index and the
\* blob on disk.
C3_FailOpenButIndexSave ==
    /\ res.fails \subseteq IOSteps \cup {"pickling"} => ~res.raised
    /\ (res.op = "get" /\ res.fails # {}) => res.ret = PyNone
    /\ (res.op = "store" /\ res.fails \cap {"blob_write", "pickling"} # {}) => ~res.ok
    /\ (res.op = "store" /\ res.fails = {"index_write"})
       => /\ res.ok
          /\ res.key \in DOMAIN cache_index[res.proc]
          /\ cache_index[res.proc][res.key].file_path \in DOMAIN files
    /\ (res.op = "init" /\ res.branch = "unreadable")
       => cache_index[res.proc] = EmptyDict /\ manager[res.proc]

\* a process has started on a corrupt index file and holds an empty index
C3_Witness ==
    /\ res.op = "init" /\ res.branch = "unreadable" /\ res.fails = {}
    /\ index_file # NoFile /\ ~loadable(index_file)
    /\ ~res.raised /\ manager[res.proc]

\* C4: a put that returns false leaves the in-memory index, the persisted index
\* and every blob on disk as they were; stated here for the complete blobs (the
\* ones an earlier put wrote to the end) and for a put whose own clean-up did
\* not fail.
C4_FailedPutNoEffect ==
    [][(Did("store") /\ ~res'.ok /\ "unlink" \notin res'.fails)
       => /\ cache_index' = cache_index
          /\ index_file' = index_file
          /\ \A path \in DOMAIN files :
                loadable(files[path])
                => path \in DOMAIN files' /\ files'[path] = files[path]]_vars

\* the entries list() returns
listed == LET entries == list_cache_entries(cache_index[res.proc], None, None)
          IN  {entries[i].cache_key : i \in 1..Len(entries)}

\* a get has found the entry of its key without a usable blob
Unusable == res.op = "get" /\ res.branch \in {"missing", "unreadable", "bad_shape"}

\* C5 (as stated): a get that finds the blob of its entry missing, unreadable or
\* of the wrong shape returns a miss, and afterwards the key is in neither the
\* in-memory index, the persisted index nor list(), and the blob file is gone.
C5_SelfHeal ==
    Unusable
    => /\ res.ret = PyNone
       /\ res.key \notin DOMAIN cache_index[res.proc]
       /\ res.key \notin listed
       /\ res.key \notin DOMAIN persisted
       /\ get_cache_file_path(res.req.data_type, res.key) \notin DOMAIN files

\* C5 (amended): such a get returns a miss and the key leaves the in-memory
\* index and list(); it leaves the persisted index when the index save
\* succeeds, and the blob file is gone when its deletion succeeds (it stays
\* when the deletion fails).
C5_SelfHealDiskPermitting ==
    Unusable
    => /\ res.ret = PyNone
       /\ res.key \notin DOMAIN cache_index[res.proc]
       /\ res.key \notin listed
       /\ "index_write" \notin res.fails => persisted = cache_index[res.proc]
       /\ "blob_delete" \notin res.fails
          => get_cache_file_path(res.req.data_type, res.key) \notin DOMAIN files
       /\ "blob_delete" \in res.fails
          => get_cache_file_path(res.req.data_type, res.key) \in DOMAIN files

\* a get has evicted an entry whose blob somebody deleted
C5_Witness ==
    /\ Unusable /\ res.branch = "missing" /\ res.fails = {}
    /\ res.key \in DOMAIN latest
    /\ res.key \notin DOMAIN persisted

\* the in-memory index of process 1 is the one on disk
Synced == persisted = cache_index[1]

\* a get, in process 1, of a request whose entry is in the index and unexpired
GetOfFresh ==
    /\ Did("get") /\ res'.proc = 1
    /\ is_valid_ticker(res'.req.ticker)
    /\ cache_key_of(res'.req) \in DOMAIN cache_index[1]
    /\ now < cache_index[1][cache_key_of(res'.req)].expires_at

\* C8 (as stated): the index a new process loads is the in-memory index the
\* process before it had when it exited, and a get of the new process for an
\* unexpired entry of it returns the value of the put that created the entry
\* (the blob being on disk, whole, and the get running without a failing step).
C8_RestartDurability ==
    [][/\ (Did("init") /\ manager[1] /\ res'.proc = 1 /\ res'.fails = {})
          => cache_index'[1] = cache_index[1]
       /\ (/\ res.op = "init" /\ res.branch = "loaded"
           /\ GetOfFresh /\ res'.fails = {}
           /\ LET path == cache_index[1][cache_key_of(res'.req)].file_path
              IN  path \in DOMAIN files /\ loadable(files[path]))
          => res'.ret = latest[cache_key_of(res'.req)]]_vars

\* C8 (amended): while no index save fails the persisted index is the
\* in-memory index, and every index save that succeeds makes it so; a new
\* process that can read the index file then loads the index the process before
\* it had; a get of the new process for an unexpired entry returns the value of
\* the last put that returned true for the key, provided the blob is on disk,
\* whole and of the shape of its data type.
C8_RestartDurabilityOfSaved ==
    [][/\ (Synced /\ res'.fails \cap {"index_write", "index_read", "mkdir"} = {})
          => Synced'
       /\ (now' = now /\ res'.proc = 1 /\ res'.saves > 0
              /\ "index_write" \notin res'.fails)
          => Synced'
       /\ (Did("init") /\ manager[1] /\ res'.proc = 1 /\ res'.fails = {} /\ Synced)
          => cache_index'[1] = cache_index[1]
       /\ (/\ res.op = "init" /\ res.branch = "loaded"
           /\ GetOfFresh /\ res'.fails = {}
           /\ LET path == cache_index[1][cache_key_of(res'.req)].file_path
              IN  /\ path \in DOMAIN files /\ loadable(files[path])
                  /\ validate_cache_data(loads(files[path]), res'.req.data_type))
          => /\ res'.branch = "hit"
             /\ res'.ret = latest[cache_key_of(res'.req)]]_vars

\* a new process has loaded the entry, blob on disk, that the process before it
\* stored
C8_Witness ==
    /\ res.op = "init" /\ res.branch = "loaded" /\ res.proc = 1
    /\ Synced
    /\ \E k \in DOMAIN cache_index[1] :
          /\ now < cache_index[1][k].expires_at
          /\ cache_index[1][k].file_path \in DOMAIN files
          /\ files[cache_index[1][k].file_path] = dumps(latest[k])

\* C6: the entry a put creates expires ttl_hours (as configured at the time of
\* the put) after its creation; a get for an entry with now >= expires_at
\* returns a miss, whatever the TTL is by then, and (the cache being enabled)
\* removes the entry; with a TTL of 0 the get that comes straight after the put
\* misses and removes the entry.
C6_TTLExpiry ==
    [][/\ (Did("store") /\ res'.ok)
          => LET metadata == cache_index'[res'.proc][res'.key]
             IN  /\ metadata.created_at = now
                 /\ metadata.expires_at = metadata.created_at + config.ttl_hours
       /\ (/\ Did("get")
           /\ cache_key_of(res'.req) \in DOMAIN cache_index[res'.proc]
           /\ now >= cache_index[res'.proc][cache_key_of(res'.req)].expires_at)
          => /\ res'.ret = PyNone
             /\ config.enabled
                => cache_key_of(res'.req) \notin DOMAIN cache_index'[res'.proc]
       /\ (/\ res.op = "store" /\ res.ok /\ config.ttl_hours = 0
           /\ Did("get") /\ res'.proc = res.proc /\ res'.req = res.req)
          => /\ res'.ret = PyNone
             /\ res.key \notin DOMAIN cache_index'[res.proc]
             /\ res.key \notin DOMAIN persisted']_vars

\* with a TTL of 0, and no time gone by since the put, a get has found the
\* entry expired and removed it
C6_Witness ==
    /\ res.op = "get" /\ res.branch = "expired"
    /\ now = 0 /\ config.ttl_hours = 0
    /\ res.key \in DOMAIN latest
    /\ res.key \notin DOMAIN cache_index[res.proc]

\* C10: while the cache is disabled a put returns false and a get returns a miss,
\* and neither changes the in-memory index, the persisted index or a blob,
\* also when the entry of the key is in the index, unexpired, with its blob.
C10_Disabled ==
    [][/\ (Did("store") /\ ~config.enabled)
          => ~res'.ok /\ UNCHANGED <<cache_index, files, index_file>>
       /\ (Did("get") /\ ~config.enabled)
          => res'.ret = PyNone /\ UNCHANGED <<cache_index, files, index_file>>]_vars

\* a get has missed, the cache being disabled, on an entry that is in the index,
\* unexpired, its blob on disk
C10_Witness ==
    /\ res.op = "get" /\ res.branch = "disabled" /\ ~config.enabled
    /\ LET cache_key == cache_key_of(res.req)
       IN  /\ cache_key \in DOMAIN cache_index[res.proc]
           /\ is_cache_valid(cache_index[res.proc][cache_key], files, now)
           /\ files[cache_index[res.proc][cache_key].file_path]
                 = dumps(CompanyInfo)

\* C2: nobody else touching the blobs, the value a get returns is the value of
\* the last put that returned true for the key of the get: not the value put
\* under another key, not the value of an earlier put for the key, not the
\* value of a put that failed.
C2_HitIntegrity ==
    (res.op = "get" /\ res.ret # PyNone)
    => /\ res.key = cache_key_of(res.req)
       /\ res.key \in DOMAIN latest
       /\ res.ret = latest[res.key]

\* a get has returned the value of its key while the other key holds another
\* value
C2_Witness ==
    /\ res.op = "get" /\ res.branch = "hit"
    /\ \E k \in DOMAIN latest :
          /\ k # res.key
          /\ latest[k] # res.ret
          /\ k \in DOMAIN cache_index[res.proc]
          /\ cache_index[res.proc][k].file_path \in DOMAIN files
          /\ files[cache_index[res.proc][k].file_path] = dumps(latest[k])

\* the entries of index idx an invalidation matches: by normalised ticker, by
\* data type, by expiry or missing blob, all of them
Matching(op, req, idx, fs, t) ==
    {k \in DOMAIN idx :
        CASE op = "clean_ticker" -> idx[k].ticker = str_upper(sanitize_ticker(req.ticker))
          [] op = "clean_data_type" -> idx[k].data_type = req.data_type
          [] op = "clean_expired" -> t >= idx[k].expires_at
                                       \/ idx[k].file_path \notin DOMAIN fs
          [] op = "clean_all" -> TRUE}

CleanOps == {"clean_ticker", "clean_data_type", "clean_expired", "clean_all"}

\* the step is an invalidation: what it matched, and what it does to the index,
\* to the count and to what it did not match
CleanedExactly(blobs_gone) ==
    LET p == res'.proc
        matched == Matching(res'.op, res'.req, cache_index[p], files, now)
        kept == DOMAIN cache_index[p] \ matched
    IN  /\ DOMAIN cache_index'[p] = kept
        /\ \A k \in kept : cache_index'[p][k] = cache_index[p][k]
        /\ res'.count = Cardinality(matched)
        /\ blobs_gone => \A k \in matched : cache_index[p][k].file_path \notin DOMAIN files'
        /\ \A path \in DOMAIN files \ {cache_index[p][k].file_path : k \in matched} :
              path \in DOMAIN files' /\ files'[path] = files[path]

\* C9 (as stated): an invalidation removes from the index exactly the entries it
\* matches, deletes their blobs, returns how many entries it removed, and
\* leaves the other entries and every other blob as they were.
C9_Invalidation ==
    [][(res'.op \in CleanOps /\ now' = now) => CleanedExactly(TRUE)]_vars

\* C9 (amended): the same, the blobs of the matched entries being gone when no
\* deletion failed; a blob whose deletion fails stays on disk, its entry
\* removed and counted all the same.
C9_InvalidationDiskPermitting ==
    [][(res'.op \in CleanOps /\ now' = now)
       => /\ CleanedExactly("blob_delete" \notin res'.fails)
          /\ DOMAIN files' \subseteq DOMAIN files]_vars

\* clean_ticker_cache has removed the two entries of one ticker and left the
\* entry of the other ticker, and its blob
C9_Witness ==
    /\ res.op = "clean_ticker" /\ res.count = 2 /\ res.fails = {}
    /\ Cardinality(DOMAIN cache_index[res.proc]) = 1
    /\ \A k \in DOMAIN cache_index[res.proc] :
          /\ cache_index[res.proc][k].ticker # str_upper(sanitize_ticker(res.req.ticker))
          /\ cache_index[res.proc][k].file_path \in DOMAIN files
    /\ Cardinality(DOMAIN files) = 1

\* C7: an index save writes the in-memory index of the process that saves and
\* nothing else, so an entry on disk that the saver does not have in memory, the
\* entry of a put that returned true in the other process, is no longer on disk
\* after the save.
C7_LostUpdate ==
    [][(now' = now /\ res'.saves > 0 /\ "index_write" \notin res'.fails)
       => /\ persisted' = cache_index'[res'.proc]
          /\ \A k \in DOMAIN persisted :
                k \notin DOMAIN cache_index'[res'.proc] => k \notin DOMAIN persisted']_vars

\* a put of one process has returned true, and its save has discarded the entry
\* of a put that returned true in the other process: that process still has
\* the entry, unexpired, blob on disk, the persisted index has not
C7_Witness ==
    /\ res.op = "store" /\ res.ok /\ res.fails = {}
    /\ \E q \in Procs \ {res.proc} : \E k \in DOMAIN cache_index[q] :
          /\ manager[q]
          /\ k \in DOMAIN latest
          /\ is_cache_valid(cache_index[q][k], files, now)
          /\ k \notin DOMAIN persisted
          /\ res.key \in DOMAIN persisted

\* C11: a put with a ticker is_valid_ticker rejects returns false before any
\* step of the disk: nothing fails, nothing is saved, and the in-memory index,
\* the persisted index and the blobs are as they were.
C11_InvalidTicker ==
    [][(Did("store") /\ res'.req.ticker \in BadTickers)
       => /\ ~res'.ok
          /\ res'.fails = {} /\ res'.saves = 0
          /\ UNCHANGED <<cache_index, files, index_file>>]_vars

\* a put with ticker "@" has returned false on a cache that holds an entry
C11_Witness ==
    /\ res.op = "store" /\ res.req.ticker = <<"@">> /\ ~res.ok
    /\ res.value = CompanyInfo
    /\ DOMAIN cache_index[res.proc] # {}
    /\ persisted = cache_index[res.proc]

\* C12: of two puts that return true, one after the other, with the same
\* ticker, data type and discriminators, the second adds no index entry and no
\* blob: the key has one entry in the index and in list(), one blob, and blob,
\* created_at and expires_at are those of the second put.
C12_IdempotentOverwrite ==
    [][(/\ res.op = "store" /\ res.ok
        /\ Did("store") /\ res'.ok /\ res'.proc = res.proc /\ res'.req = res.req)
       => LET p == res'.proc
              metadata == cache_index'[p][res'.key]
              entries == list_cache_entries(cache_index'[p], None, None)
          IN  /\ res'.key = res.key
              /\ DOMAIN cache_index'[p] = DOMAIN cache_index[p]
              /\ DOMAIN files' = DOMAIN files
              /\ Cardinality({i \in 1..Len(entries) :
                                 entries[i].cache_key = res'.key}) = 1
              /\ files'[metadata.file_path] = dumps(res'.value)
              /\ metadata.created_at = now
              /\ metadata.expires_at = now + config.ttl_hours]_vars

\* a second put for the key has returned true an hour after the first (whose
\* entry is the one on disk, the index save of the second having failed): one
\* entry for the key, one blob, the second value
C12_Witness ==
    /\ res.op = "store" /\ res.ok /\ res.fails = {"index_write"}
    /\ res.key \in DOMAIN persisted
    /\ persisted[res.key].created_at < cache_index[res.proc][res.key].created_at
    /\ DOMAIN cache_index[res.proc] = {res.key}
    /\ Cardinality(DOMAIN files) = 1
    /\ files[cache_index[res.proc][res.key].file_path] = dumps(res.value)

\* C13 (as stated): every entry in the index has expires_at > created_at,
\* whatever TTL the configuration gives.  Stated here for the entries that do
\* not expire before they are created, the ones a TTL of 0 or more makes.
C13_ExpiresAfterCreated ==
    \A p \in Procs : \A k \in DOMAIN cache_index[p] :
        cache_index[p][k].expires_at >= cache_index[p][k].created_at
        => cache_index[p][k].expires_at > cache_index[p][k].created_at

\* the TTL a put reads now: cache.ttl_hours, 24 when it is not configured
TTLNow == IF "ttl_hours" \in DOMAIN config THEN config.ttl_hours ELSE 24

\* C13 (amended): an entry is created by a put with expires_at = created_at +
\* the TTL read at the put, and keeps both as long as it is in the index; so
\* expires_at > created_at exactly when that TTL is positive, expires_at =
\* created_at when it is 0, expires_at < created_at when it is negative.
C13_ExpiresByTTL ==
    [][/\ (Did("store") /\ res'.ok)
          => LET metadata == cache_index'[res'.proc][res'.key]
             IN  /\ metadata.created_at = now
                 /\ metadata.expires_at = metadata.created_at + TTLNow
                 /\ metadata.expires_at > metadata.created_at <=> TTLNow > 0
                 /\ metadata.expires_at = metadata.created_at <=> TTLNow = 0
       /\ \A p \in Procs : \A k \in DOMAIN cache_index'[p] :
             ~(Did("store") /\ res'.ok /\ res'.proc = p /\ res'.key = k)
             => k \in DOMAIN cache_index[p] /\ cache_index'[p][k] = cache_index[p][k]]_vars

\* a put has returned true with a TTL of 0: its entry expires when it is created
C13_Witness ==
    /\ res.op = "store" /\ res.ok /\ TTLNow = 0
    /\ cache_index[res.proc][res.key].expires_at
         = cache_index[res.proc][res.key].created_at

\* C16: after a put under one spelling of a ticker has returned true, a get
\* under another spelling of it (other letter case, blanks around it), with the
\* same data type and discriminators, hits and returns the stored value.
C16_NormalizedTicker ==
    [][(/\ res.op = "store" /\ res.ok /\ res.req.ticker \in SpellingsOfAB
        /\ Did("get") /\ res'.proc = res.proc
        /\ res'.req.ticker \in SpellingsOfAB \ {res.req.ticker}
        /\ res'.req = [res.req EXCEPT !.ticker = res'.req.ticker]
        /\ now < cache_index[res.proc][res.key].expires_at)
       => res'.branch = "hit" /\ res'.ret = res.value]_vars

\* C16 (amended): the get under the other spelling finds the entry the put
\* made, under the same key; it hits and returns the stored value when the
\* value passes the shape check of the data type, and misses otherwise, as a
\* get under the spelling of the put does.
C16_NormalizedTickerOfShape ==
    [][(/\ res.op = "store" /\ res.ok /\ res.req.ticker \in SpellingsOfAB
        /\ Did("get") /\ res'.proc = res.proc
        /\ res'.req.ticker \in SpellingsOfAB \ {res.req.ticker}
        /\ res'.req = [res.req EXCEPT !.ticker = res'.req.ticker]
        /\ now < cache_index[res.proc][res.key].expires_at)
       => /\ res'.key = res.key
          /\ validate_cache_data(res.value, res.req.data_type)
              => res'.branch = "hit" /\ res'.ret = res.value
          /\ ~validate_cache_data(res.value, res.req.data_type)
              => res'.ret = PyNone]_vars

\* a get under "A", "B", " " has returned the list stored under "a", "b" with
\* period 1y
C16_Witness ==
    /\ res.op = "get" /\ res.branch = "hit"
    /\ res.req.ticker = <<"A", "B", " ">> /\ res.req.data_type = price_data
    /\ res.ret = PyList(<<1>>)
    /\ \E k \in DOMAIN cache_index[res.proc] : latest[k] = res.ret /\ k = res.key

PolicyOps == {"is_cache_enabled", "get_ttl_hours", "get_cache_dir"}

\* C18: a lookup of the policy does not raise, and when the configuration
\* source raises or is absent it returns the default: enabled, 24 hours, the
\* directory ./data.
C18_PolicyDefaults ==
    [][(res'.op \in PolicyOps /\ now' = now)
       => /\ ~res'.raised
          /\ (ConfigRaises \/ config = NoConfig)
              => /\ res'.op = "is_cache_enabled" => res'.ok
                 /\ res'.op = "get_ttl_hours" => res'.count = 24
                 /\ res'.op = "get_cache_dir" => res'.key = Path(<<".", "/", "data">>)]_vars

\* C19: `cache stats`, `cache clear <ticker>` and `cache clear`, under the name
\* cache or its alias c, exit with code 0 whatever the cache holds, when the
\* cache directories can be created.
C19_CacheCommandsExitZero ==
    [][(/\ Did("cli")
        /\ res'.key \in {n \o a : n \in command_names, a \in {<<"stats">>, <<"clear">>}}
        /\ "mkdir" \notin res'.fails)
       => res'.count = 0]_vars

\* `c clear z` has exited with code 0 on a cache that has entries, none of
\* them of ticker Z
C19_Witness ==
    /\ res.op = "cli" /\ res.key = <<"c", "clear">> /\ res.req.ticker = <<"z">>
    /\ res.branch = "none_found" /\ res.count = 0
    /\ loadable(index_file) /\ DOMAIN loads_index(index_file) # {}

\* the restart that follows a put cut short between the blob and the index
RestartAfterCrash ==
    /\ res.op = "store_crash" /\ Did("init") /\ res'.proc = res.proc /\ ~res'.raised

\* after the restart: the blob of the interrupted put is on the disk, no
\* persisted entry has its path, a get with the arguments of the put misses,
\* and list and stats are what they would be without the blob
OrphanAfterRestart ==
    LET path == get_cache_file_path(res.req.data_type, res.key)
        idx == cache_index'[res.proc]
        entries == list_cache_entries(idx, None, None)
    IN  /\ path \in DOMAIN files' /\ files'[path] = dumps(res.value)
        /\ \A k \in DOMAIN persisted' : persisted'[k].file_path # path
        /\ get_cached_data(idx, files', index_file', res.req, NoGetFault, now').ret = PyNone
        /\ \A i \in 1..Len(entries) : entries[i].file_path # path
        /\ get_cache_stats(idx, files', now')
             = get_cache_stats(idx, dict_del(files', path), now')

RECURSIVE sum_by_type(_, _, _)
sum_by_type(by_type, field, types) ==
    IF types = {} THEN 0
    ELSE LET dt == CHOOSE x \in types : TRUE
         IN  by_type[dt][field] + sum_by_type(by_type, field, types \ {dt})

\* C17: what get_cache_stats returns has per-type counts that add up to
\* total_entries and per-type sizes that add up to total_size_bytes.
C17_StatsConsistency ==
    res.op = "stats" =>
        LET stats == get_cache_stats(cache_index[res.proc], files, now)
            types == DOMAIN stats.stats_by_type
        IN  /\ sum_by_type(stats.stats_by_type, "count", types) = stats.total_entries
            /\ sum_by_type(stats.stats_by_type, "size", types) = stats.total_size_bytes

\* the value a request gives to a discriminator, None when it gives none
Discriminator(req, name) ==
    CASE name = "frequency" -> req.frequency
      [] name = "period" -> req.period
      [] OTHER -> IF \E i \in 1..Len(req.kwargs) : req.kwargs[i][1] = name
                  THEN req.kwargs[CHOOSE i \in 1..Len(req.kwargs) :
                                      req.kwargs[i][1] = name][2]
                  ELSE None

DiscriminatorNames == {"frequency", "period", "interval", "adjusted"}

\* the discriminators two requests differ in
Differing(r1, r2) ==
    {name \in DiscriminatorNames : Discriminator(r1, name) # Discriminator(r2, name)}

\* C14: two requests with the same ticker and data type that differ in the
\* value of one discriminator (frequency, period or an extra parameter, one of
\* the two values possibly being absent) have different keys.
C14_KeyUniqueness ==
    [][(/\ res.op = "key" /\ Did("key")
        /\ res'.req.ticker = res.req.ticker /\ res'.req.data_type = res.req.data_type
        /\ Cardinality(Differing(res.req, res'.req)) = 1)
       => res'.key # res.key]_vars

\* C15: two requests that give the same values to the same names, the extra
\* parameters in whatever order, have the same key.
C15_KeyDeterminism ==
    [][(/\ res.op = "key" /\ Did("key")
        /\ res'.req.ticker = res.req.ticker /\ res'.req.data_type = res.req.data_type
        /\ Differing(res.req, res'.req) = {})
       => res'.key = res.key]_vars

\* the key of a request that passes interval before adjusted is the key of the
\* request that passes them the other way round
C15_Witness ==
    /\ res.op = "key"
    /\ res.req.kwargs = <<Interval(<<"1d">>), Adjusted>>
    /\ res.key = cache_key_of([res.req EXCEPT !.kwargs = <<Adjusted, Interval(<<"1d">>)>>])
    /\ res.key # cache_key_of([res.req EXCEPT !.kwargs = <<Adjusted>>])

\* a put has written its blob and failed to save the index
SaveFailed == Did("store") /\ "index_write" \in res'.fails

\* a get by the same process, right after, on a disk that works
GetAfter == get_cached_data(cache_index'[res'.proc], files', index_file', res'.req,
                            NoGetFault, now')

\* C21 (as stated): a put whose blob write succeeds and whose index save fails
\* returns true, the entry is in the in-memory index, a get in the same process
\* hits, and the persisted index does not contain the entry.  Stated here for a
\* value that passes the shape check of its data type.
C21_SaveFailure ==
    [][(SaveFailed /\ validate_cache_data(res'.value, res'.req.data_type))
       => /\ res'.ok
          /\ res'.key \in DOMAIN cache_index'[res'.proc]
          /\ GetAfter.branch = "hit" /\ GetAfter.ret = res'.value
          /\ res'.key \notin DOMAIN persisted']_vars

\* C21 (amended): such a put returns true, with the blob on the disk and the
\* entry in the in-memory index; a get in the same process hits when the value
\* passes the shape check and the TTL is positive.  The persisted index has
\* nothing of this put: it is as it was when the index file could not be
\* opened, and unreadable when the write stopped part-way; so it has an entry
\* for the key only if it had that entry before the put.
C21_SaveFailureKeepsOldIndex ==
    [][SaveFailed
       => LET p == res'.proc
              key == res'.key
          IN  /\ res'.ok
              /\ key \in DOMAIN cache_index'[p]
              /\ cache_index'[p][key].created_at = now
              /\ files'[cache_index'[p][key].file_path] = dumps(res'.value)
              /\ (validate_cache_data(res'.value, res'.req.data_type)
                     /\ now < cache_index'[p][key].expires_at)
                 => GetAfter.branch = "hit" /\ GetAfter.ret = res'.value
              /\ index_file' \in {index_file, Truncated}
              /\ key \in DOMAIN persisted'
                 => key \in DOMAIN persisted /\ persisted'[key] = persisted[key]]_vars

\* a put of a key the persisted index does not have has returned true without
\* saving the index
C21_Witness ==
    /\ res.op = "store" /\ res.ok /\ res.fails = {"index_write"}
    /\ res.value = CompanyInfo
    /\ res.key \in DOMAIN cache_index[res.proc]
    /\ res.key \notin DOMAIN persisted


\* C22: an invalidation that removes entries saves the index once, after it has
\* removed them all from the in-memory index, not once for each of them.
C22_OneSavePerInvalidation ==
    [][(/\ res'.op \in CleanOps /\ now' = now
        /\ Matching(res'.op, res'.req, cache_index[res'.proc], files, now) # {})
       => res'.saves = 1]_vars


\* C23: a construction that succeeds leaves a directory for every data type
\* the configuration declares; a put for such a data type, on a disk that
\* works, does not fail, and no put creates a directory.
C23_DirectoriesAtConstruction ==
    [][/\ (Did("init") /\ ~res'.raised) => DeclaredDataTypes \subseteq dirs'
       /\ Did("store")
          => /\ dirs' = dirs
             /\ res'.req.data_type \in DeclaredDataTypes => res'.ok]_vars



----------------------------------------------------------------------------
(* C24: reading does not write *)

\* a step of get_cache_stats, of list_cache_entries, or of a get that hits
Reads == Did("stats") \/ Did("list") \/ (Did("get") /\ res'.branch = "hit")

\* C24: get_cache_stats, list_cache_entries and a get that hits leave the
\* manager's index (so every entry's created_at and expires_at), the persisted
\* index file and every blob exactly as they were.
C24_ReadOnly ==
    [][Reads => /\ cache_index' = cache_index
                /\ index_file' = index_file
                /\ files' = files]_vars

\* a get has hit an entry that is in the index, whose blob is on disk
C24_Witness ==
    /\ res.op = "get" /\ res.branch = "hit"
    /\ res.key \in DOMAIN cache_index[res.proc]
    /\ cache_index[res.proc][res.key].file_path \in DOMAIN files
    /\ index_file # NoFile


----------------------------------------------------------------------------
(* C25: the index is read once and rewritten whole *)

\* the state a put of process q under key k that returned true leaves: q holds
\* the entry, the persisted index holds that same entry, the blob is on disk
PutBy(q, k) ==
    /\ manager[q]
    /\ k \in DOMAIN cache_index[q]
    /\ k \in DOMAIN persisted /\ persisted[k] = cache_index[q][k]
    /\ cache_index[q][k].file_path \in DOMAIN files

\* a step in which process res'.proc mutates the index: it saves, and the save
\* reaches the disk
Mutates == now' = now /\ res'.saves > 0 /\ "index_write" \notin res'.fails

\* the blob of q's entry under k is on disk after the step as it was before
BlobStays(q, k) ==
    LET path == cache_index[q][k].file_path
    IN  path \in DOMAIN files' /\ files'[path] = files[path]

\* C25 as stated, for a mutation other than a put, by a process B that does not
\* hold A's entry (A's put came after B read the index): any index mutation by B
\* after a put by A that returned true takes A's entry out of the persisted
\* index, and A's blob stays on disk.
C25_AnyMutationDropsEntry ==
    [][(Mutates /\ res'.op # "store")
       => \A q \in Procs \ {res'.proc} : \A k \in DOMAIN persisted :
             (/\ PutBy(q, k)
              /\ k \in DOMAIN cache_index[res'.proc]
                    => cache_index[res'.proc][k] # cache_index[q][k])
             => /\ k \in DOMAIN persisted' => persisted'[k] # cache_index[q][k]
                /\ BlobStays(q, k)]_vars

\* C25, amended: no step but the construction adds to a process's index a key
\* other than the key of its own put (the persisted index is read at
\* construction only); every mutation leaves the persisted index equal to the
\* mutating process's own index; and a mutation by B, when B holds no entry
\* under A's key and the mutation is not a put of that key, takes the entry of
\* A's put out of the persisted index while A's blob stays on disk.
C25_MutationDropsUnknownEntry ==
    [][/\ (now' = now /\ res'.op # "init")
          => \A q \in Procs :
                DOMAIN cache_index'[q] \subseteq
                   DOMAIN cache_index[q]
                      \cup (IF q = res'.proc /\ res'.op = "store" /\ res'.ok
                            THEN {res'.key} ELSE {})
       /\ Mutates
          => /\ persisted' = cache_index'[res'.proc]
             /\ \A q \in Procs \ {res'.proc} : \A k \in DOMAIN persisted :
                   (/\ PutBy(q, k)
                    /\ k \notin DOMAIN cache_index[res'.proc]
                    /\ ~(res'.op = "store" /\ res'.key = k))
                   => /\ k \notin DOMAIN persisted'
                      /\ BlobStays(q, k)]_vars

\* process B has just mutated the index with a key of its own; process A still
\* holds the unexpired entry of its put, the blob is on disk, and the persisted
\* index has B's key and not A's
C25_Witness ==
    /\ res.saves > 0 /\ res.fails = {}
    /\ persisted = cache_index[res.proc] /\ persisted # EmptyDict
    /\ \E q \in Procs \ {res.proc} : \E k \in DOMAIN cache_index[q] :
          /\ manager[q] /\ k # res.key
          /\ k \in DOMAIN latest /\ now < cache_index[q][k].expires_at
          /\ cache_index[q][k].file_path \in DOMAIN files
          /\ files[cache_index[q][k].file_path] = dumps(latest[k])
          /\ k \notin DOMAIN persisted


----------------------------------------------------------------------------
(* C26: what a get returns when two processes write one blob *)

\* C26: with two processes on one cache directory, a get that hits returns a
\* value some process passed to a put for that key: never a value put together
\* from the writes of two puts.
C26_GetReturnsAPutValue ==
    [][(Did("get") /\ res'.branch = "hit") => res'.ret \in ValuesRace]_vars


----------------------------------------------------------------------------
(* C27: the shape is checked by get, not by put *)

\* a put of a value of the wrong shape for its data type that nothing keeps from
\* writing its blob: the cache is on, the ticker is valid, the value pickles,
\* and no write of the blob fails
PutOfBadShape ==
    /\ Did("store")
    /\ ~validate_cache_data(res'.value, res'.req.data_type)
    /\ is_cache_enabled(res'.req.data_type) /\ is_valid_ticker(res'.req.ticker)
    /\ picklable(res'.value)
    /\ res'.fails \subseteq {"index_write"}

\* a get for a key the process holds an entry for, the last put of which was
\* given a value of the wrong shape
GetOfBadShape ==
    /\ Did("get")
    /\ res'.key \in DOMAIN cache_index[res'.proc]
    /\ res'.key \in DOMAIN latest
    /\ ~validate_cache_data(latest[res'.key], res'.req.data_type)

\* C27: store_cached_data does not check the shape: a put of a value that fails
\* validate_cache_data returns true and leaves an index entry and the blob of
\* that value; a get for that key then misses, whatever else is the matter
\* with the entry, and takes the entry out of the index (and, when nothing
\* fails, out of the persisted index and off the disk): it is never a hit.
C27_ShapeCheckedByGetOnly ==
    [][/\ PutOfBadShape
          => LET p == res'.proc  key == res'.key
             IN  /\ res'.ok
                 /\ key \in DOMAIN cache_index'[p]
                 /\ cache_index'[p][key].file_path \in DOMAIN files'
                 /\ files'[cache_index'[p][key].file_path] = dumps(res'.value)
       /\ GetOfBadShape
          => LET p == res'.proc  key == res'.key
             IN  /\ res'.branch \in {"bad_shape", "missing", "expired", "unreadable"}
                 /\ ~res'.ok /\ res'.ret = PyNone
                 /\ key \notin DOMAIN cache_index'[p]
                 /\ res'.fails = {}
                       => /\ key \notin DOMAIN persisted'
                          /\ cache_index[p][key].file_path \notin DOMAIN files']_vars

\* a put of a list under company_info returned true, and the get that followed
\* found the blob, rejected its shape and evicted the entry
C27_Witness ==
    /\ res.op = "get" /\ res.branch = "bad_shape" /\ res.ret = PyNone
    /\ res.req.data_type = company_info
    /\ res.key \in DOMAIN latest /\ isinstance_list(latest[res.key])
    /\ res.key \notin DOMAIN cache_index[res.proc]
    /\ res.key \notin DOMAIN persisted


----------------------------------------------------------------------------
(* C28: the entries of the index are well formed *)

\* entry e, filed under key k, is the entry of k: it names k, its ticker and
\* data type are what k starts with, and its blob is
\* <base_dir>/cache/<data_type>/<k>.pkl
WellFormed(k, e) ==
    /\ e.cache_key = k
    /\ Len(k) >= Len(e.ticker) + 2
    /\ SubSeq(k, 1, Len(e.ticker) + 2) = e.ticker \o <<"_">> \o e.data_type
    /\ e.file_path = <<"cache", "/">> \o e.data_type \o <<"/">> \o k \o <<".pkl">>

\* the entry a put makes has the normalised ticker of the put, and the key made
\* from it
PutMakesItsEntry ==
    (Did("store") /\ res'.ok)
    => LET e == cache_index'[res'.proc][res'.key]
       IN  /\ e.ticker = str_upper(sanitize_ticker(res'.req.ticker))
           /\ e.data_type = res'.req.data_type
           /\ e.created_at = now

\* an entry the process holds after a step is the entry it held before, unless
\* the step is a put under its key; the construction holds what the index file had
OnlyPutChanges ==
    \A p \in Procs : \A k \in DOMAIN cache_index'[p] :
        \/ k \in DOMAIN cache_index[p] /\ cache_index'[p][k] = cache_index[p][k]
        \/ Did("store") /\ res'.proc = p /\ res'.key = k /\ res'.ok
        \/ /\ Did("init") /\ res'.proc = p
           /\ k \in DOMAIN persisted /\ cache_index'[p][k] = persisted[k]

\* C28: in every state of a single process every entry of the index is filed
\* under its own cache_key, carries the normalised ticker and the data type its
\* key was built from, and points to <base_dir>/cache/<data_type>/<key>.pkl;
\* and only a put adds an entry or changes one.
C28_IndexWellFormed ==
    /\ [](\A p \in Procs : \A k \in DOMAIN cache_index[p] :
              WellFormed(k, cache_index[p][k]))
    /\ [][PutMakesItsEntry /\ OnlyPutChanges]_vars

\* the process holds two entries, one made by a put under the ticker "A", "B", " "
\* and one under "b", ".", "c", after an invalidation took a third
C28_Witness ==
    /\ res.op \in CleanOps /\ res.count = 1
    /\ Cardinality(DOMAIN cache_index[1]) = 2
    /\ \E k \in DOMAIN cache_index[1] : cache_index[1][k].ticker = <<"B", "_", "C">>
    /\ \E k \in DOMAIN cache_index[1] :
          /\ cache_index[1][k].ticker = <<"A", "B">>
          /\ cache_index[1][k].data_type = company_info
          /\ k = <<"A", "B", "_">> \o company_info


----------------------------------------------------------------------------
(* C29: what the statistics count *)

\* the entries of process p that have not expired and have lost their blob
Blobless(p) ==
    {k \in DOMAIN cache_index[p] :
        /\ now < cache_index[p][k].expires_at
        /\ cache_index[p][k].file_path \notin DOMAIN files}

\* C29: in what get_cache_stats returns, valid_entries and expired_entries add
\* up to total_entries, which is the number of entries of the index;
\* expired_entries is the number of entries with now >= expires_at, so an
\* entry that has not expired and has lost its blob counts as valid, while
\* _is_cache_valid (get) and clean_expired_cache take it for invalid.
C29_StatsCounts ==
    res.op = "stats" =>
        LET p == res.proc
            idx == cache_index[p]
            stats == get_cache_stats(idx, files, now)
            expired == {k \in DOMAIN idx : now >= idx[k].expires_at}
        IN  /\ stats.valid_entries + stats.expired_entries = stats.total_entries
            /\ stats.total_entries = Cardinality(DOMAIN idx)
            /\ stats.expired_entries = Cardinality(expired)
            /\ stats.valid_entries = Cardinality(DOMAIN idx \ expired)
            /\ stats.valid_entries >= Cardinality(Blobless(p))
            /\ \A k \in Blobless(p) :
                  /\ ~is_cache_valid(idx[k], files, now)
                  /\ k \in Matching("clean_expired", NoRequest, idx, files, now)
            /\ clean_expired_cache(idx, files, index_file, NoCleanFault, now).count
                  = stats.expired_entries + Cardinality(Blobless(p))

\* the statistics of three entries: one expired, one valid, and one that has
\* not expired and has no blob, counted as valid
C29_Witness ==
    /\ res.op = "stats"
    /\ Cardinality(DOMAIN cache_index[res.proc]) = 3
    /\ Cardinality(Blobless(res.proc)) = 1
    /\ get_cache_stats(cache_index[res.proc], files, now).expired_entries = 1
    /\ get_cache_stats(cache_index[res.proc], files, now).valid_entries = 2


----------------------------------------------------------------------------
(* C30: an eviction whose blob cannot be deleted *)

\* a step that evicts, by an invalidation or by a get, in which os.remove fails
EvictsUndeletable ==
    /\ now' = now
    /\ res'.op \in CleanOps \cup {"get"}
    /\ "blob_delete" \in res'.fails

\* the keys the step is to evict
ToEvict ==
    IF res'.op = "get" THEN {res'.key}
    ELSE Matching(res'.op, res'.req, cache_index[res'.proc], files, now)

\* the entries are out of the in-memory index, they are counted in the number
\* returned, and a blob is left on the disk that no entry points to
EvictedAllTheSame ==
    LET p == res'.proc
    IN  /\ ToEvict # {}
        /\ DOMAIN cache_index'[p] = DOMAIN cache_index[p] \ ToEvict
        /\ res'.op \in CleanOps => res'.count = Cardinality(ToEvict)
        /\ \E k \in ToEvict :
              LET path == cache_index[p][k].file_path
              IN  /\ path \in DOMAIN files /\ path \in DOMAIN files'
                  /\ files'[path] = files[path]
                  /\ \A j \in DOMAIN cache_index'[p] :
                        cache_index'[p][j].file_path # path
        /\ \A path \in DOMAIN files \ DOMAIN files' :
              \E k \in ToEvict : cache_index[p][k].file_path = path

\* C30 as stated: an eviction with a blob that cannot be deleted takes the
\* entry out of the in-memory index and persists the index, counts the entry
\* in the number it returns, and leaves the blob on disk with no entry for it.
C30_EvictsThoughUndeletable ==
    [][EvictsUndeletable
       => /\ EvictedAllTheSame
          /\ persisted' = cache_index'[res'.proc]]_vars

\* C30, amended: the index is persisted without the entry when the save of
\* the index succeeds; when it fails the index file is as it was or truncated.
C30_EvictsThoughUndeletableSavePermitting ==
    [][EvictsUndeletable
       => /\ EvictedAllTheSame
          /\ "index_write" \notin res'.fails => persisted' = cache_index'[res'.proc]
          /\ "index_write" \in res'.fails => index_file' \in {index_file, Truncated}]_vars

\* an invalidation has returned 1 for an entry whose blob it could not delete:
\* the index in memory and on disk is empty, the blob is still there
C30_Witness ==
    /\ res.op \in CleanOps /\ res.count = 1 /\ res.fails = {"blob_delete"}
    /\ cache_index[res.proc] = EmptyDict
    /\ index_file # NoFile /\ persisted = EmptyDict
    /\ files # EmptyDict

====
